---- MODULE Spec2Model ----
(***************************************************************************)
(* Model of the job orchestrator of the LinkedIn job scraper extension     *)
(* (src/background/background.js, class LinkedInScrapingManager) and of    *)
(* the storage keys it writes, and of the storage engine                   *)
(* (src/utils/storage.js, class StorageManager), which the orchestrator    *)
(* does not use and whose keys are kept in a variable of their own.        *)
(*                                                                         *)
(* The background script is single threaded.  A handler runs without       *)
(* interruption up to its next `await`; there it is suspended and any      *)
(* other event may be handled before it resumes.  Every suspended handler  *)
(* is a record in the bag `tasks`; its `pc` names the await it is waiting  *)
(* on.  One action of the model is one uninterrupted segment of code:      *)
(* the arrival of an event up to the first await, or the resumption of a   *)
(* suspended handler up to its next await (or its end).                    *)
(*                                                                         *)
(* Time.  The code reads the clock only to compare                         *)
(* `currentTime - job.lastUpdate` with the stale threshold, so the field   *)
(* lastUpdate holds the minutes elapsed since the assignment               *)
(* `job.lastUpdate = Date.now()`, saturated just above the threshold, and  *)
(* NaN while the field was never assigned (`currentTime - undefined`).     *)
(* Jobs are numbered in the order in which they are started, so a job's    *)
(* number orders the jobs by startTime.                                    *)
(*                                                                         *)
(* A job object that is neither in the Map nor held by a suspended handler *)
(* is unreachable; its fields are dropped (Collect).  lastUpdate is read   *)
(* only for jobs in the Map, so it is dropped when a job leaves the Map.   *)
(***************************************************************************)
EXTENDS Integers, Sequences, FiniteSets, Bags, TLC

\* ------------------------------------------------------------------ bounds
MaxTabs == 3        \* tabs (originating contexts) 1..MaxTabs
MaxJobs == 3        \* requests accepted (started or queued) in one run
MaxQueue == 2       \* length of the admission queue
MaxTasks == 2       \* handlers suspended at an await at the same time
MaxErrors == 1      \* `error` progress events accepted per job
MaxParams == 1      \* distinct request parameter values
MaxCompletes == 2   \* Session Record writes accepted per job

Ceiling == 1        \* maxConcurrentScrapes of the stored settings
                    \* (loadSettings: settings.maxConcurrentScrapes || 2)
MaxSessions == 5    \* session identities a caller of StorageManager saves
MaxIndex == 4       \* StorageManager's index cap (1000 in the source)
MaxTime == 2        \* start times 1..MaxTime of the sessions a caller saves
MaxLegacy == 2      \* legacy keys linkedin_jobs_<k> found at start
MaxMigrations == 3  \* identities migration generates in one run

\* -------------------------------------------------------- program constants
staleTime == 30                      \* 30 * 60 * 1000 ms, in minutes
maxEntries == 100                    \* index cap of updateScrapingIndex

Tabs == 1..MaxTabs
JobIds == 1..MaxJobs
Params == 1..MaxParams
NoJob == 0                           \* Map.get(tabId) === undefined
NaN == -1                            \* lastUpdate never assigned
Saturated == staleTime + 1
ElapseMinutes == {staleTime - 1, staleTime + 1}
Terminal == {"completed", "cancelled", "timeout"}
\* what a `complete` event may carry as progressData.data (result ids)
DataSets == {<<1>>}

VARIABLES
    activeScrapeJobs,      \* Map tabId -> job object (NoJob: no entry)
    scrapingQueue,         \* array of {tabId, scrapingParams}
    maxConcurrentScrapes,  \* the concurrency ceiling
    job,                   \* the job objects created so far, by job number
    tasks,                 \* bag of suspended handlers
    scrapingResult,        \* storage keys scraping_result_<id>
    scrapingIndex,         \* storage key scrapingIndex
    response,              \* what the step just taken answered to a
                           \* START_SCRAPING message (the answers to the
                           \* other messages carry nothing but success)
    sessionWrites,         \* history: writes of scraping_result_<id>
    settings,              \* storage.sync key settings: the sink's fields
    apiCalls,              \* history: fetch calls to the sink, by job
    local,                 \* StorageManager: the keys of chrome.storage.local
                           \* it reads and writes
    call,                  \* StorageManager: the method call suspended at an
                           \* await (NoCall: none)
    result,                \* StorageManager: what the call that ended last
                           \* returned or threw
    generated,             \* StorageManager: identities migration generated
    agent                  \* the content scripts: the isRunning flag of each
                           \* tab and the runs of handleScrapeRequest

\* the state of the orchestrator and the state of the storage engine
orchVars == <<activeScrapeJobs, scrapingQueue, maxConcurrentScrapes, job, tasks,
              scrapingResult, scrapingIndex, response, sessionWrites, settings,
              apiCalls, agent>>
storeVars == <<local, call, result, generated>>
vars == <<activeScrapeJobs, scrapingQueue, maxConcurrentScrapes, job, tasks,
          scrapingResult, scrapingIndex, response, sessionWrites, settings,
          apiCalls, local, call, result, generated, agent>>

\* ----------------------------------------------------------------- values
Unborn == [params |-> 0, status |-> "unborn", extractedJobs |-> <<>>,
           errors |-> <<>>, lastUpdate |-> NaN, endTime |-> "undefined"]

\* the object literal of startScrapeJob: lastUpdate is not among its fields
scrapingJob(scrapingParams) ==
    [params |-> scrapingParams, status |-> "running", extractedJobs |-> <<>>,
     errors |-> <<>>, lastUpdate |-> NaN, endTime |-> "undefined"]

NoData == [id |-> 0, status |-> "none", jobs |-> <<>>]

\* the object literal of saveScrapingResults, serialised when set() is called
\* (of its fields the identity, the status and the result records are kept)
resultData(j, o) == [id |-> j, status |-> o.status, jobs |-> o.extractedJobs]

\* the object literal of updateScrapingIndex (timestamp is the job's start
\* time, which the job number orders)
indexEntry(data) ==
    [id |-> data.id, jobCount |-> Len(data.jobs), status |-> data.status]

NoResponse == [kind |-> "none", error |-> "", position |-> 0]
Success == [kind |-> "success", error |-> "", position |-> 0]
Queued(n) == [kind |-> "queued", error |-> "", position |-> n]
Error(msg) == [kind |-> "error", error |-> msg, position |-> 0]

\* the sink's fields of the settings object; setDefaultSettings lines 82-83
\* stores both empty
NoSink == [apiEndpoint |-> "", apiKey |-> ""]
SinkSettings ==
    {[apiEndpoint |-> e, apiKey |-> k] : e \in {"", "endpoint"}, k \in {"", "key"}}
\* what the fetch of sendToAPI may do: response.ok, a non-success response,
\* or a throw
FetchOutcomes == {"ok", "not ok", "threw"}

\* a run of handleScrapeRequest in a tab's content script: none until the
\* START_SCRAPING message of the job arrives, then active, or refusing when
\* isRunning was set, and ended after its last progress event
NoRun == [tabId |-> 0, state |-> "none"]
\* the content scripts before any message (constructor: isRunning = false)
NoAgent == [isRunning |-> [t \in Tabs |-> FALSE],
            runs |-> [j \in JobIds |-> NoRun]]

Task(pc, origin, tabId, j) ==
    [pc |-> pc, origin |-> origin, tabId |-> tabId, job |-> j,
     data |-> NoData, index |-> <<>>, todo |-> {}]

\* ------------------------------------------------ StorageManager: values
\* (src/utils/storage.js; background.js does not use the class, so its keys
\* are kept apart from the orchestrator's)
SessionIds == 1..MaxSessions
\* identities of the form migrated_<now>_<random>: each one is new
MigratedIds == (MaxSessions + 1)..(MaxSessions + MaxMigrations)
StoreIds == SessionIds \cup MigratedIds
LegacyKeys == 1..MaxLegacy
\* const maxIndexEntries = 1000, scaled so that saves reach the cap
maxIndexEntries == MaxIndex
quotaThreshold == 80                 \* usagePercent > 80
StartTimes == 1..MaxTime
\* Date.now() when migration runs: later than every startTime a caller gave
Now == MaxTime + 1

Undefined == "undefined"
EmptyParams == "{}"
\* result records: the two fields deduplicateJobs reads
Result(jobId, jobUrl) == [jobId |-> jobId, jobUrl |-> jobUrl]
JobA == Result("a", "u")
JobB == Result("b", "u")

NoSession == [id |-> 0, startTime |-> 0, status |-> "none",
              params |-> Undefined, jobs |-> <<>>, migrated |-> Undefined]
\* a session a caller passes to saveScrapingSession
Session(id, startTime, params, jobs) ==
    [id |-> id, startTime |-> startTime, status |-> "completed",
     params |-> params, jobs |-> jobs, migrated |-> Undefined]
\* the sessions with an odd identity have one result record and no request
\* parameters, the others a repeated result record and parameters
SessionInputs ==
    {Session(id, startTime,
             IF id % 2 = 1 THEN EmptyParams ELSE "p",
             IF id % 2 = 1 THEN <<JobA>> ELSE <<JobA, JobB, JobA>>) :
        id \in SessionIds, startTime \in StartTimes}

\* legacy entries: an object with timestamp, searchParams and jobs, an
\* object without timestamp and searchParams, or a bare array of result
\* records (`oldData.jobs || oldData`)
NoTimestamp == 0                     \* oldData.timestamp is undefined
NoLegacy == [shape |-> "none", timestamp |-> NoTimestamp,
             searchParams |-> Undefined, jobs |-> <<>>]
LegacyObject(timestamp, searchParams, jobs) ==
    [shape |-> "object", timestamp |-> timestamp,
     searchParams |-> searchParams, jobs |-> jobs]
LegacyArray(jobs) ==
    [shape |-> "array", timestamp |-> NoTimestamp, searchParams |-> Undefined,
     jobs |-> jobs]
LegacyData ==
    {LegacyObject(1, "p", <<JobA, JobA>>),
     LegacyObject(NoTimestamp, Undefined, <<JobB>>),
     LegacyArray(<<JobA, JobB>>)}

\* ensureStorageStructure lines 68-75: the stats start at zero
NoStats == [totalJobs |-> 0, totalSessions |-> 0, storageUsed |-> 0]
\* the keys after ensureStorageStructure on a fresh store
ensureStorageStructure ==
    [sessions |-> [id \in StoreIds |-> NoSession],
     scrapingIndex |-> <<>>,
     storageStats |-> NoStats,
     legacy |-> [k \in LegacyKeys |-> NoLegacy]]

\* strings that are searched are sequences of characters; a property that
\* is undefined is not given
NoText == [given |-> FALSE, chars |-> <<>>]
Text(chars) == [given |-> TRUE, chars |-> chars]
\* the objects the request parameters "p" and "q" stand for; "{}" and
\* undefined have neither property (`entry.params?.jobTitle`)
jobTitleOf(params) ==
    CASE params = "p" -> Text(<<"D", "e", "v">>)
      [] params = "q" -> Text(<<"d", "e", "v", "O", "p", "s">>)
      [] OTHER -> NoText
locationOf(params) ==
    CASE params = "p" -> Text(<<"N", "Y">>)
      [] params = "q" -> Text(<<"L", "A">>)
      [] OTHER -> NoText

\* the filters object: 0, '' and undefined are falsy, and a filter whose
\* value is falsy is not applied.  Dates are given in the unit of the
\* timestamps (`new Date(ms).getTime()` is ms).
NoFilters == [startDate |-> 0, endDate |-> 0, jobTitle |-> NoText,
              location |-> NoText, status |-> "", minJobs |-> 0]

\* the options of getScrapingSessions: `{ limit = 50, offset = 0, filters =
\* {} } = options`
NoOptions == [limit |-> 50, offset |-> 0, filters |-> NoFilters]

NoCall == [op |-> "none", origin |-> "none", sessionData |-> NoSession,
           optimizedData |-> NoSession, todo |-> <<>>, options |-> NoOptions]
NoResult == [kind |-> "none", sessionId |-> 0, deletedCount |-> 0,
             format |-> "", data |-> [text |-> <<>>],
             sessions |-> <<>>, total |-> 0, hasMore |-> FALSE]
Saved(id) == [NoResult EXCEPT !.kind = "success", !.sessionId = id]
Deleted == [NoResult EXCEPT !.kind = "success"]
DeletedMany(n) == [NoResult EXCEPT !.kind = "success", !.deletedCount = n]
Thrown == [NoResult EXCEPT !.kind = "error"]
Exported(format, data) ==
    [NoResult EXCEPT !.kind = "exported", !.format = format, !.data = data]
UsagePercents == {quotaThreshold, quotaThreshold + 5}
\* the return value of getScrapingSessions lines 354-359 (nextOffset is
\* left out)
Listed(sessions, total, hasMore) ==
    [NoResult EXCEPT !.kind = "listed", !.sessions = sessions,
                     !.total = total, !.hasMore = hasMore]

\* ---------------------------------------------------------------- helpers
SizeOf(map) == Cardinality({t \in Tabs : map[t] # NoJob})
FreeIds == {j \in JobIds : job[j].status = "unborn"}
NewJobId == CHOOSE j \in FreeIds : \A k \in FreeIds : j <= k
Accepted == (MaxJobs - Cardinality(FreeIds)) + Len(scrapingQueue)
TaskCount == BagCardinality(tasks)
Suspend(t) == tasks (+) SetToBag({t})
Resume(old, new) == (tasks (-) SetToBag({old})) (+) SetToBag({new})
End(old) == tasks (-) SetToBag({old})
At(pc) == {t \in BagToSet(tasks) : t.pc = pc}
Min(a, b) == IF a < b THEN a ELSE b
\* `complete` events handled so far for job j: records written or being written
Completes(j) ==
    sessionWrites[j]
      + BagCardinality([t \in {u \in At("save_record") : u.job = j} |-> tasks[t]])

Referenced(j, map, bag) ==
    \/ \E t \in Tabs : map[t] = j
    \/ \E task \in BagToSet(bag) : task.job = j
Collected == [Unborn EXCEPT !.status = "collected"]
Collect(jobs, map, bag) ==
    [j \in JobIds |->
        IF jobs[j] = Unborn \/ (\E t \in Tabs : map[t] = j) THEN jobs[j]
        ELSE IF Referenced(j, map, bag)
        THEN [jobs[j] EXCEPT !.lastUpdate = NaN]
        ELSE Collected]

InitOrchestrator(sink) ==
    /\ activeScrapeJobs = [t \in Tabs |-> NoJob]
    /\ scrapingQueue = <<>>
    /\ maxConcurrentScrapes = Ceiling
    /\ job = [j \in JobIds |-> Unborn]
    /\ tasks = EmptyBag
    /\ scrapingResult = [j \in JobIds |-> NoData]
    /\ scrapingIndex = <<>>
    /\ response = NoResponse
    /\ sessionWrites = [j \in JobIds |-> 0]
    /\ settings = sink
    /\ apiCalls = [j \in JobIds |-> 0]
    /\ agent = NoAgent

\* StorageManager on a store without legacy keys
InitStorage(legacy) ==
    /\ local = [ensureStorageStructure EXCEPT !.legacy = legacy]
    /\ call = NoCall
    /\ result = NoResult
    /\ generated = 0

InitWith(sink) ==
    /\ InitOrchestrator(sink)
    /\ InitStorage([k \in LegacyKeys |-> NoLegacy])

\* the stored settings leave the sink unconfigured
Init == InitWith(NoSink)

\* ------------------------------------------------------------- admission
\* handleStartScraping line 244
AtCeilingOffByOne == SizeOf(activeScrapeJobs) > maxConcurrentScrapes
AtCeiling == SizeOf(activeScrapeJobs) >= maxConcurrentScrapes

\* handleStartScraping line 246: position is the length after the push
QueuePositionZeroBased(queue) == Len(queue) - 1
QueuePosition(queue) == Len(queue)

\* handleStartScraping line 238
AlreadyActiveIgnored(tabId) == FALSE
AlreadyActive(tabId) == activeScrapeJobs[tabId] # NoJob

\* handleStartScraping, to the await inside startScrapeJob
handleStartScraping(tabId, scrapingParams) ==
    IF AlreadyActive(tabId)
    THEN /\ response' = Error("Scraping already active in this tab")
         /\ UNCHANGED <<activeScrapeJobs, scrapingQueue, maxConcurrentScrapes, storeVars, agent, settings, apiCalls,
                        job, tasks, scrapingResult, scrapingIndex,
                        sessionWrites>>
    ELSE IF AtCeiling
    THEN /\ Len(scrapingQueue) < MaxQueue
         /\ Accepted < MaxJobs
         /\ scrapingQueue' = Append(scrapingQueue,
                [tabId |-> tabId, scrapingParams |-> scrapingParams])
         /\ response' = Queued(QueuePosition(scrapingQueue'))
         /\ UNCHANGED <<activeScrapeJobs, maxConcurrentScrapes, storeVars, agent, settings, apiCalls, job, tasks,
                        scrapingResult, scrapingIndex, sessionWrites>>
    ELSE /\ Accepted < MaxJobs
         /\ TaskCount < MaxTasks
         /\ activeScrapeJobs' = [activeScrapeJobs EXCEPT ![tabId] = NewJobId]
         /\ job' = [job EXCEPT ![NewJobId] = scrapingJob(scrapingParams)]
         /\ tasks' = Suspend(Task("start", "START_SCRAPING", tabId, NewJobId))
         /\ response' = NoResponse
         /\ UNCHANGED <<scrapingQueue, maxConcurrentScrapes, storeVars, agent, settings, apiCalls, scrapingResult,
                        scrapingIndex, sessionWrites>>

\* startScrapeJob resumes from `await chrome.tabs.sendMessage(START_SCRAPING)`.
\* Delivered: addToScrapingHistory is awaited (it writes the key scrapingHistory
\* only, so the two awaits are one suspension here), startScrapeJob returns and
\* so does the handler that awaited it.  Not delivered: the catch block deletes
\* the tab's entry and rethrows; handleMessage answers an error to a
\* START_SCRAPING caller, processScrapingQueue swallows it.
\* startScrapeJob line 284, in the catch block
startFailureKept(map, tabId) == map
startFailureDeleted(map, tabId) == [map EXCEPT ![tabId] = NoJob]

startScrapeJobDone(task, delivered) ==
    /\ task.pc = "start"
    /\ LET map == IF delivered THEN activeScrapeJobs
                  ELSE startFailureDeleted(activeScrapeJobs, task.tabId)
       IN  /\ activeScrapeJobs' = map
           /\ tasks' = End(task)
           /\ job' = Collect(job, map, End(task))
           /\ response' = IF task.origin # "START_SCRAPING" THEN NoResponse
                          ELSE IF delivered THEN Success
                          ELSE Error("start failed")
    /\ UNCHANGED <<scrapingQueue, maxConcurrentScrapes, storeVars, agent, settings, apiCalls, scrapingResult,
                   scrapingIndex, sessionWrites>>

\* ------------------------------------------------------- queue draining
\* processScrapingQueue line 366: scrapingQueue.shift()
Pop(queue) == [entry |-> queue[Len(queue)],
               rest |-> SubSeq(queue, 1, Len(queue) - 1)]
Shift(queue) == [entry |-> Head(queue), rest |-> Tail(queue)]

\* processScrapingQueue line 365
processScrapingQueueAdmits(map) ==
    Len(scrapingQueue) > 0 /\ SizeOf(map) < maxConcurrentScrapes

\* `this.activeScrapeJobs.delete(tabId); await this.processScrapingQueue()`:
\* the end of cancelScrapeJob and of the `complete` branch of
\* handleProgressUpdate, to the await inside startScrapeJob
deleteAndProcessQueue(task) ==
    LET deleted == [activeScrapeJobs EXCEPT ![task.tabId] = NoJob]
    IN  IF processScrapingQueueAdmits(deleted)
        THEN LET queuedJob == Shift(scrapingQueue).entry
                 started == [deleted EXCEPT ![queuedJob.tabId] = NewJobId]
                 resumed == Resume(task,
                     Task("start", task.origin, queuedJob.tabId, NewJobId))
             IN  /\ scrapingQueue' = Shift(scrapingQueue).rest
                 /\ activeScrapeJobs' = started
                 /\ tasks' = resumed
                 /\ job' = Collect(
                        [job EXCEPT ![NewJobId] = scrapingJob(queuedJob.scrapingParams)],
                        started, resumed)
                 /\ response' = NoResponse
        ELSE /\ activeScrapeJobs' = deleted
             /\ tasks' = End(task)
             /\ job' = Collect(job, deleted, End(task))
             /\ response' = NoResponse
             /\ UNCHANGED scrapingQueue

\* ----------------------------------------------------------- cancellation
\* cancelScrapeJob lines 300-304, to `await chrome.tabs.sendMessage(STOP)`;
\* called by handleStopScraping (STOP_SCRAPING message) and, not awaited, by
\* handleTabRemoved
cancelScrapeJob(tabId, origin) ==
    LET j == activeScrapeJobs[tabId]
    IN  /\ j # NoJob
        /\ TaskCount < MaxTasks
        /\ job' = [job EXCEPT ![j].status = "cancelled", ![j].endTime = "set"]
        /\ tasks' = Suspend(Task("cancel", origin, tabId, j))
        /\ response' = NoResponse
        /\ UNCHANGED <<activeScrapeJobs, scrapingQueue, maxConcurrentScrapes, storeVars, agent, settings, apiCalls,
                       scrapingResult, scrapingIndex, sessionWrites>>

\* STOP_SCRAPING for a tab without a job changes nothing
handleStopScraping(tabId) == cancelScrapeJob(tabId, "STOP_SCRAPING")

\* handleTabRemoved: cancels only when the tab has an entry
handleTabRemoved(tabId) == cancelScrapeJob(tabId, "tabRemoved")

\* cancelScrapeJob lines 305-311: the try/catch around the STOP_SCRAPING
\* message only logs, so the handler goes on whether or not it was delivered
StopFailureRethrown(delivered) == delivered
StopFailureLogged(delivered) == TRUE

\* cancelScrapeJob resumes from `await chrome.tabs.sendMessage(STOP_SCRAPING)`
\* and from `await this.updateScrapingHistory(job)`, which writes the key
\* scrapingHistory only and no scraping_result_<id> or scrapingIndex (the two
\* awaits are one suspension here): lines 313-317
cancelScrapeJobDone(task, delivered) ==
    /\ task.pc = "cancel"
    /\ IF StopFailureLogged(delivered)
       THEN deleteAndProcessQueue(task)
       ELSE /\ tasks' = End(task)
            /\ job' = Collect(job, activeScrapeJobs, End(task))
            /\ response' = NoResponse
            /\ UNCHANGED <<activeScrapeJobs, scrapingQueue>>
    /\ UNCHANGED <<maxConcurrentScrapes, storeVars, agent, settings, apiCalls, scrapingResult, scrapingIndex,
                   sessionWrites>>

\* ------------------------------------------------------ progress events
\* handleProgressUpdate line 326: the job looked up by the sender's tab
JobOfTab(tabId) == activeScrapeJobs[tabId]

\* handleProgressUpdate lines 350-353 and checkStaleJobs lines 825-828:
\* job.errors.push(...)
pushErrorDropped(errors, message) == errors
pushError(errors, message) == Append(errors, message)

\* handleProgressUpdate, to `await this.saveScrapingResults(job)` for a
\* `complete` event (saveScrapingResults builds resultData and calls
\* chrome.storage.local.set before it suspends), to the end otherwise.  An
\* event for a tab without a job changes nothing.
progressUpdate(tabId, type, data) ==
    LET j == JobOfTab(tabId)
        updated == [job[j] EXCEPT !.lastUpdate = 0]
        done == [updated EXCEPT !.status = "completed", !.endTime = "set",
                                !.extractedJobs = data]
    IN  /\ j # NoJob
        /\ CASE type = "complete" ->
                  /\ TaskCount < MaxTasks
                  /\ Completes(j) < MaxCompletes
                  /\ job' = [job EXCEPT ![j] = done]
                  /\ tasks' = Suspend(
                         [Task("save_record", "PROGRESS_UPDATE", tabId, j)
                            EXCEPT !.data = resultData(j, done)])
             [] type = "error" ->
                  /\ Len(job[j].errors) < MaxErrors
                  /\ job' = [job EXCEPT ![j] =
                         [updated EXCEPT !.errors = pushError(@, "agent")]]
                  /\ UNCHANGED tasks
             [] OTHER ->
                  /\ job' = [job EXCEPT ![j] = updated]
                  /\ UNCHANGED tasks
        /\ response' = NoResponse
        /\ UNCHANGED <<activeScrapeJobs, scrapingQueue, maxConcurrentScrapes, storeVars, settings, apiCalls,
                       scrapingResult, scrapingIndex, sessionWrites>>

\* the PROGRESS_UPDATE message of a tab, whichever run of the tab's content
\* script sent it
handleProgressUpdate(tabId, type, data) ==
    /\ progressUpdate(tabId, type, data)
    /\ UNCHANGED agent

\* saveScrapingResults lines 403-426: the try/catch around the writes only
\* logs, so handleProgressUpdate goes on whether or not the record was stored
SaveFailureRethrown(stored) == stored
SaveFailureLogged(stored) == TRUE

\* saveScrapingResults resumes from `chrome.storage.local.set({[storageKey]:
\* resultData})`.  Stored: the record is there and updateScrapingIndex calls
\* get.  Not stored (the write rejects): the catch block is entered,
\* updateScrapingIndex is skipped, saveScrapingResults returns and sendToAPI is
\* awaited.
saveRecordDone(task, stored) ==
    /\ task.pc = "save_record"
    /\ IF stored
       THEN /\ scrapingResult' = [scrapingResult EXCEPT ![task.data.id] = task.data]
            /\ sessionWrites' = [sessionWrites EXCEPT ![task.data.id] = @ + 1]
            /\ tasks' = Resume(task, [task EXCEPT !.pc = "index_get"])
       ELSE /\ tasks' = IF SaveFailureLogged(stored)
                        THEN Resume(task, [task EXCEPT !.pc = "send_api",
                                                       !.data = NoData])
                        ELSE End(task)
            /\ UNCHANGED <<scrapingResult, sessionWrites>>
    /\ response' = NoResponse
    /\ UNCHANGED <<activeScrapeJobs, scrapingQueue, maxConcurrentScrapes, storeVars, agent, settings, apiCalls, job,
                   scrapingIndex>>

\* updateScrapingIndex resumes from `chrome.storage.local.get(['scrapingIndex'])`
\* with the stored index, puts the new entry in front (line 446) and calls the
\* writes that follow
indexGetDone(task) ==
    /\ task.pc = "index_get"
    /\ tasks' = Resume(task,
            [task EXCEPT !.pc = "index_set",
                         !.index = <<indexEntry(task.data)>> \o scrapingIndex,
                         !.data = NoData])
    /\ response' = NoResponse
    /\ UNCHANGED <<activeScrapeJobs, scrapingQueue, maxConcurrentScrapes, storeVars, agent, settings, apiCalls, job,
                   scrapingResult, scrapingIndex, sessionWrites>>

\* updateScrapingIndex lines 449-459: the entries beyond maxEntries are cut
\* off and their records removed, then the index is written; saveScrapingResults
\* returns and sendToAPI is awaited
Keep(index) == SubSeq(index, 1, Min(Len(index), maxEntries))
removedEntries(index) ==
    {index[i].id : i \in (Min(Len(index), maxEntries) + 1)..Len(index)}

indexSetDone(task) ==
    /\ task.pc = "index_set"
    /\ scrapingIndex' = Keep(task.index)
    /\ scrapingResult' = [j \in JobIds |->
            IF j \in removedEntries(task.index) THEN NoData ELSE scrapingResult[j]]
    /\ tasks' = Resume(task, [task EXCEPT !.pc = "send_api", !.index = <<>>])
    /\ response' = NoResponse
    /\ UNCHANGED <<activeScrapeJobs, scrapingQueue, maxConcurrentScrapes, storeVars, agent, settings, apiCalls, job,
                   sessionWrites>>

\* sendToAPI line 473: if (!settings.apiEndpoint || !settings.apiKey) return
sinkConfiguredEndpointOnly(s) == s.apiEndpoint # ""
sinkConfigured(s) == ~(s.apiEndpoint = "" \/ s.apiKey = "")

\* sendToAPI resumes from `await this.getSettings()`.  Sink not configured:
\* sendToAPI returns and handleProgressUpdate goes on to lines 344-347.
\* Configured: fetch is called (one outbound call) and awaited.
sendToAPIDone(task) ==
    /\ task.pc = "send_api"
    /\ IF sinkConfigured(settings)
       THEN /\ apiCalls' = [apiCalls EXCEPT ![task.job] = @ + 1]
            /\ tasks' = Resume(task, [task EXCEPT !.pc = "fetch"])
            /\ response' = NoResponse
            /\ UNCHANGED <<activeScrapeJobs, scrapingQueue, job>>
       ELSE /\ deleteAndProcessQueue(task)
            /\ UNCHANGED apiCalls
    /\ UNCHANGED <<maxConcurrentScrapes, storeVars, agent, settings, scrapingResult,
                   scrapingIndex, sessionWrites>>

\* sendToAPI resumes from `await fetch(...)`: whatever the outcome it only
\* logs (lines 494-502) and returns; handleProgressUpdate goes on to lines
\* 344-347
fetchDone(task, outcome) ==
    /\ task.pc = "fetch"
    /\ deleteAndProcessQueue(task)
    /\ UNCHANGED <<maxConcurrentScrapes, storeVars, agent, settings, apiCalls, scrapingResult,
                   scrapingIndex, sessionWrites>>

\* the last step of the `complete` branch of handleProgressUpdate
completeHandlerEnds(task) ==
    \/ sendToAPIDone(task) /\ ~sinkConfigured(settings)
    \/ \E outcome \in FetchOutcomes : fetchDone(task, outcome)

\* ------------------------------------------------------------- the Agent
\* (src/unnamed/part_001, class LinkedInJobScraper: the content script of a
\* tab).  A PROGRESS_UPDATE message carries the update only; the background
\* script takes the tab from the sender (handleProgressUpdate line 325).

\* a START_SCRAPING message sent to the tab has not reached its content
\* script yet (the messages to one tab arrive in the order they were sent)
Undelivered(tabId) ==
    \E task \in BagToSet(tasks) :
       task.pc = "start" /\ task.tabId = tabId /\ agent.runs[task.job] = NoRun

\* the content script receives the START_SCRAPING message a start is waiting
\* on: handleScrapeRequest lines 65-77.  With isRunning set the request is
\* refused (its one event is the error of lines 67-70); otherwise the run
\* begins and sets isRunning.
agentStart(task) ==
    /\ task.pc = "start"
    /\ agent.runs[task.job] = NoRun
    /\ agent' = IF agent.isRunning[task.tabId]
                THEN [agent EXCEPT !.runs[task.job] = [tabId |-> task.tabId, state |-> "refusing"]]
                ELSE [agent EXCEPT !.runs[task.job] = [tabId |-> task.tabId, state |-> "active"],
                                   !.isRunning[task.tabId] = TRUE]
    /\ response' = NoResponse
    /\ UNCHANGED <<activeScrapeJobs, scrapingQueue, maxConcurrentScrapes,
                   storeVars, settings, apiCalls, job, tasks, scrapingResult,
                   scrapingIndex, sessionWrites>>

\* the content script receives the STOP_SCRAPING message a cancel is waiting
\* on: stopScraping line 363 clears isRunning; the runs in progress go on to
\* their next test of the flag
agentStop(task) ==
    /\ task.pc = "cancel"
    /\ agent.isRunning[task.tabId]
    /\ ~Undelivered(task.tabId)
    /\ agent' = [agent EXCEPT !.isRunning[task.tabId] = FALSE]
    /\ response' = NoResponse
    /\ UNCHANGED <<activeScrapeJobs, scrapingQueue, maxConcurrentScrapes,
                   storeVars, settings, apiCalls, job, tasks, scrapingResult,
                   scrapingIndex, sessionWrites>>

\* what a run may send next: info while it is active (lines 83, 99, 256),
\* then `complete` (lines 122-127, also after a stop, which only breaks the
\* loops) or the error of the catch block (lines 131-134); a refused request
\* sends its error
runSends(run, type) ==
    \/ run.state = "active" /\ type \in {"info", "complete", "error"}
    \/ run.state = "refusing" /\ type = "error"

\* the run started for job `emitter` sends a progress event and the
\* background script handles it: handleProgressUpdate for the sender's tab,
\* which does nothing when the tab has no job.  In handleScrapeRequest
\* `complete` and the error of the catch block are followed by
\* `finally { this.isRunning = false }` (line 136), the error of a refused
\* request by `return` (line 71).
agentSends(emitter, type, data) ==
    LET run == agent.runs[emitter]
    IN  /\ runSends(run, type)
        /\ agent' = IF type = "info" THEN agent
                    ELSE IF run.state = "refusing"
                    THEN [agent EXCEPT !.runs[emitter].state = "ended"]
                    ELSE [agent EXCEPT !.runs[emitter].state = "ended",
                                       !.isRunning[run.tabId] = FALSE]
        /\ IF JobOfTab(run.tabId) # NoJob
           THEN progressUpdate(run.tabId, type, data)
           ELSE /\ response' = NoResponse
                /\ UNCHANGED <<activeScrapeJobs, scrapingQueue,
                               maxConcurrentScrapes, storeVars, settings,
                               apiCalls, job, tasks, scrapingResult,
                               scrapingIndex, sessionWrites>>

\* -------------------------------------------------------------- watchdog
\* checkStaleJobs line 820: currentTime - job.lastUpdate > staleTime
IsStaleEarly(j) ==
    j # NoJob /\ job[j].lastUpdate # NaN /\ job[j].lastUpdate > staleTime - 2
IsStale(j) ==
    j # NoJob /\ job[j].lastUpdate # NaN /\ job[j].lastUpdate > staleTime

\* checkStaleJobs lines 823-828
TimedOut(o) == [o EXCEPT !.status = "timeout", !.endTime = "set",
                         !.errors =
                             pushError(@, "Job timed out due to inactivity")]

\* the timer fires: checkStaleJobs walks the Map to the first stale job,
\* marks it and awaits updateScrapingHistory.  A pass that finds no stale job
\* changes nothing.  The walk is in Map order; the model lets it reach any
\* stale job first.
checkStaleJobs ==
    /\ TaskCount < MaxTasks
    /\ \E tabId \in Tabs :
         LET j == activeScrapeJobs[tabId]
         IN  /\ IsStale(j)
             /\ job' = [job EXCEPT ![j] = TimedOut(job[j])]
             /\ tasks' = Suspend([Task("stale_history", "timer", tabId, j)
                                    EXCEPT !.todo = Tabs \ {tabId}])
    /\ response' = NoResponse
    /\ UNCHANGED <<activeScrapeJobs, scrapingQueue, maxConcurrentScrapes, storeVars, agent, settings, apiCalls,
                   scrapingResult, scrapingIndex, sessionWrites>>

\* checkStaleJobs resumes from updateScrapingHistory: line 831 deletes the
\* tab's entry, and the loop goes on to the next stale job or ends
staleHistoryDone(task) ==
    /\ task.pc = "stale_history"
    /\ LET deleted == [activeScrapeJobs EXCEPT ![task.tabId] = NoJob]
           next == {t \in task.todo : IsStale(deleted[t])}
       IN  /\ activeScrapeJobs' = deleted
           /\ IF next = {}
              THEN /\ tasks' = End(task)
                   /\ job' = Collect(job, deleted, End(task))
              ELSE \E tabId \in next :
                     LET resumed == Resume(task,
                             [task EXCEPT !.tabId = tabId,
                                          !.job = deleted[tabId],
                                          !.todo = task.todo \ {tabId}])
                     IN  /\ tasks' = resumed
                         /\ job' = Collect(
                                [job EXCEPT ![deleted[tabId]] =
                                    TimedOut(job[deleted[tabId]])],
                                deleted, resumed)
    /\ response' = NoResponse
    /\ UNCHANGED <<scrapingQueue, maxConcurrentScrapes, storeVars, agent, settings, apiCalls, scrapingResult,
                   scrapingIndex, sessionWrites>>

\* minutes pass: every running job's lastUpdate grows older.  A watchdog pass
\* compares with the currentTime it read when it began, and the history write
\* it awaits takes no such time, so no time passes inside a pass.
Elapse(minutes) ==
    /\ At("stale_history") = {}
    /\ job' = [j \in JobIds |->
            IF (\E t \in Tabs : activeScrapeJobs[t] = j) /\ job[j].lastUpdate # NaN
            THEN [job[j] EXCEPT !.lastUpdate = Min(@ + minutes, Saturated)]
            ELSE job[j]]
    /\ response' = NoResponse
    /\ UNCHANGED <<activeScrapeJobs, scrapingQueue, maxConcurrentScrapes, storeVars, agent, settings, apiCalls, tasks,
                   scrapingResult, scrapingIndex, sessionWrites>>

\* ------------------------------------------------------- retention sweep
\* cleanupOldData line 791: entry.timestamp > cutoffTime.  An entry's
\* timestamp is its job's start time, which the job number orders: the jobs
\* numbered up to cutoff started at or before cutoffTime.
withinWindow(entry, cutoff) == entry.id > cutoff

\* the jobs started so far
Born == MaxJobs - Cardinality(FreeIds)

\* the hourly timer fires: cleanupOldData reads the settings and the index,
\* sorts the entries into validEntries and expiredIds and, if any expired,
\* awaits chrome.storage.local.remove(keysToRemove); lines 778-801.  A sweep
\* that finds no expired entry writes nothing.
cleanupOldData(cutoff) ==
    LET validEntries == SelectSeq(scrapingIndex,
                            LAMBDA entry : withinWindow(entry, cutoff))
        expiredIds == {scrapingIndex[i].id : i \in
                          {k \in 1..Len(scrapingIndex) :
                              ~withinWindow(scrapingIndex[k], cutoff)}}
    IN  /\ TaskCount < MaxTasks
        /\ expiredIds # {}
        /\ tasks' = Suspend([Task("sweep_remove", "timer", 0, NoJob)
                               EXCEPT !.index = validEntries,
                                      !.todo = expiredIds])
        /\ response' = NoResponse
        /\ UNCHANGED <<activeScrapeJobs, scrapingQueue, maxConcurrentScrapes,
                       storeVars, agent, settings, apiCalls, job, scrapingResult,
                       scrapingIndex, sessionWrites>>

\* cleanupOldData resumes from the remove of the expired records and awaits
\* chrome.storage.local.set({ scrapingIndex: validEntries }); lines 801-802
sweepRemoveDone(task) ==
    /\ task.pc = "sweep_remove"
    /\ scrapingResult' = [j \in JobIds |->
            IF j \in task.todo THEN NoData ELSE scrapingResult[j]]
    /\ tasks' = Resume(task, [task EXCEPT !.pc = "sweep_set"])
    /\ response' = NoResponse
    /\ UNCHANGED <<activeScrapeJobs, scrapingQueue, maxConcurrentScrapes,
                   storeVars, agent, settings, apiCalls, job, scrapingIndex,
                   sessionWrites>>

\* cleanupOldData resumes from the write of validEntries and ends
sweepSetDone(task) ==
    /\ task.pc = "sweep_set"
    /\ scrapingIndex' = task.index
    /\ tasks' = End(task)
    /\ response' = NoResponse
    /\ UNCHANGED <<activeScrapeJobs, scrapingQueue, maxConcurrentScrapes,
                   storeVars, agent, settings, apiCalls, job, scrapingResult,
                   sessionWrites>>

\* ---------------------------------------------------------------- export
\* exportData lines 620-644 of background.js, inside its try block: json
\* and csv are downloaded, any other format throws 'Unsupported export
\* format'
orchestratorExport(format) ==
    IF format \in {"json", "csv"} THEN "downloaded" ELSE "thrown"

\* exportData lines 647-649: the catch block around the whole method only
\* logs, so exportData returns to handleMessage whether or not it threw, and
\* line 204 answers { success: true }
exportAnswer(format) ==
    CASE orchestratorExport(format) = "downloaded" -> Success
      [] orchestratorExport(format) = "thrown" -> Success

\* the EXPORT_DATA message, lines 202-205
handleExportData(format) ==
    /\ response' = exportAnswer(format)
    /\ UNCHANGED <<activeScrapeJobs, scrapingQueue, maxConcurrentScrapes,
                   storeVars, agent, settings, apiCalls, job, tasks, scrapingResult,
                   scrapingIndex, sessionWrites>>

\* -------------------------------------------------------------- settings
\* updateSettings line 739: updatedSettings.maxConcurrentScrapes || 2 (0
\* stands for a value that is absent or 0)
ceilingOf(value) == IF value = 0 THEN 2 ELSE value

\* the UPDATE_SETTINGS message, lines 731-745: the merged settings are
\* stored and the ceiling assigned; neither the queue nor the registry is
\* looked at.  The message carries maxConcurrentScrapes only, so the sink's
\* fields stay as they are.
updateSettings(value) ==
    /\ maxConcurrentScrapes' = ceilingOf(value)
    /\ response' = NoResponse
    /\ UNCHANGED <<activeScrapeJobs, scrapingQueue, storeVars, agent, settings,
                   apiCalls, job, tasks, scrapingResult, scrapingIndex,
                   sessionWrites>>

\* ------------------------------------------------------------------ Next
Next ==
    \/ \E tabId \in Tabs, p \in Params : handleStartScraping(tabId, p)
    \/ \E tabId \in Tabs : handleStopScraping(tabId)
    \/ \E tabId \in Tabs : handleTabRemoved(tabId)
    \/ \E tabId \in Tabs, type \in {"info", "error"} :
           handleProgressUpdate(tabId, type, <<>>)
    \/ \E tabId \in Tabs, data \in DataSets :
           handleProgressUpdate(tabId, "complete", data)
    \/ \E task \in BagToSet(tasks), delivered \in BOOLEAN :
           startScrapeJobDone(task, delivered)
    \/ \E task \in BagToSet(tasks), delivered \in BOOLEAN :
           cancelScrapeJobDone(task, delivered)
    \/ \E task \in BagToSet(tasks), stored \in BOOLEAN :
           saveRecordDone(task, stored)
    \/ \E task \in BagToSet(tasks) : indexGetDone(task)
    \/ \E task \in BagToSet(tasks) : indexSetDone(task)
    \/ \E task \in BagToSet(tasks) : sendToAPIDone(task)
    \/ \E task \in BagToSet(tasks) : staleHistoryDone(task)
    \/ checkStaleJobs
    \/ \E minutes \in ElapseMinutes : Elapse(minutes)

Spec == Init /\ [][Next]_vars

\* The sink: the stored settings hold any combination of endpoint and key,
\* and neither storage nor the delivery of signals fails.
SinkTabs == 1..2
InitSink == \E sink \in SinkSettings : InitWith(sink)
NextSink ==
    \/ \E tabId \in SinkTabs, p \in Params : handleStartScraping(tabId, p)
    \/ \E tabId \in SinkTabs : handleStopScraping(tabId)
    \/ \E tabId \in SinkTabs : handleProgressUpdate(tabId, "info", <<>>)
    \/ \E tabId \in SinkTabs, data \in DataSets :
           handleProgressUpdate(tabId, "complete", data)
    \/ \E task \in BagToSet(tasks) : startScrapeJobDone(task, TRUE)
    \/ \E task \in BagToSet(tasks) : cancelScrapeJobDone(task, TRUE)
    \/ \E task \in BagToSet(tasks) : saveRecordDone(task, TRUE)
    \/ \E task \in BagToSet(tasks) : indexGetDone(task)
    \/ \E task \in BagToSet(tasks) : indexSetDone(task)
    \/ \E task \in BagToSet(tasks) : sendToAPIDone(task)
    \/ \E task \in BagToSet(tasks), outcome \in FetchOutcomes :
           fetchDone(task, outcome)
    \/ \E task \in BagToSet(tasks) : staleHistoryDone(task)
    \/ checkStaleJobs
    \/ \E minutes \in ElapseMinutes : Elapse(minutes)

SpecSink == InitSink /\ [][NextSink]_vars

\* The stored data: one tab whose Agent reports every result record twice,
\* the hourly retention sweep, and no failure of storage or signals.  The
\* retention window is days long: the cutoff of a sweep lies before the start
\* of every job that is still being handled.
DataTabs == 1..1
DupData == {<<JobA, JobA>>}
NextData ==
    \/ \E tabId \in DataTabs, p \in Params : handleStartScraping(tabId, p)
    \/ \E tabId \in DataTabs, data \in DupData :
           handleProgressUpdate(tabId, "complete", data)
    \/ \E task \in BagToSet(tasks) : startScrapeJobDone(task, TRUE)
    \/ \E task \in BagToSet(tasks) : saveRecordDone(task, TRUE)
    \/ \E task \in BagToSet(tasks) : indexGetDone(task)
    \/ \E task \in BagToSet(tasks) : indexSetDone(task)
    \/ \E task \in BagToSet(tasks) : sendToAPIDone(task)
    \/ \E cutoff \in 0..MaxJobs :
           /\ cutoff <= Born
           /\ \A j \in JobIds :
                Referenced(j, activeScrapeJobs, tasks) => j > cutoff
           /\ cleanupOldData(cutoff)
    \/ \E task \in BagToSet(tasks) : sweepRemoveDone(task)
    \/ \E task \in BagToSet(tasks) : sweepSetDone(task)

SpecData == Init /\ [][NextData]_vars

\* Admission with a ceiling that the settings change: two tabs, no watchdog
\* and no failure of storage.
AdmitTabs == 1..2
SettingsValues == {0, Ceiling}
NextAdmit ==
    \/ \E tabId \in AdmitTabs, p \in Params : handleStartScraping(tabId, p)
    \/ \E tabId \in AdmitTabs : handleStopScraping(tabId)
    \/ \E tabId \in AdmitTabs : handleTabRemoved(tabId)
    \/ \E tabId \in AdmitTabs, data \in DataSets :
           handleProgressUpdate(tabId, "complete", data)
    \/ \E value \in SettingsValues : updateSettings(value)
    \/ \E task \in BagToSet(tasks), delivered \in BOOLEAN :
           startScrapeJobDone(task, delivered)
    \/ \E task \in BagToSet(tasks) : cancelScrapeJobDone(task, TRUE)
    \/ \E task \in BagToSet(tasks) : saveRecordDone(task, TRUE)
    \/ \E task \in BagToSet(tasks) : indexGetDone(task)
    \/ \E task \in BagToSet(tasks) : indexSetDone(task)
    \/ \E task \in BagToSet(tasks) : sendToAPIDone(task)

SpecAdmit == Init /\ [][NextAdmit]_vars

\* The orchestrator with the content scripts of two tabs.  The answer to
\* START_SCRAPING comes when the run has ended (handleMessage of the content
\* script awaits handleScrapeRequest), or the message is not delivered and
\* no run begins; the answer to STOP_SCRAPING comes when the flag is cleared.
AgentTabs == 1..2
EventTypes == {"info", "complete", "error"}
EventData(type) == IF type = "complete" THEN DataSets ELSE {<<>>}
NextAgent ==
    \/ \E tabId \in AgentTabs, p \in Params : handleStartScraping(tabId, p)
    \/ \E tabId \in AgentTabs : handleStopScraping(tabId)
    \/ \E task \in BagToSet(tasks) : agentStart(task)
    \/ \E task \in BagToSet(tasks) : agentStop(task)
    \/ \E emitter \in JobIds, type \in EventTypes :
           \E data \in EventData(type) : agentSends(emitter, type, data)
    \/ \E task \in BagToSet(tasks) :
           /\ agent.runs[task.job].state = "ended"
           /\ startScrapeJobDone(task, TRUE)
    \/ \E task \in BagToSet(tasks) :
           /\ agent.runs[task.job] = NoRun
           /\ startScrapeJobDone(task, FALSE)
    \/ \E task \in BagToSet(tasks) :
           /\ ~agent.isRunning[task.tabId]
           /\ ~Undelivered(task.tabId)
           /\ cancelScrapeJobDone(task, TRUE)
    \/ \E task \in BagToSet(tasks) : saveRecordDone(task, TRUE)
    \/ \E task \in BagToSet(tasks) : indexGetDone(task)
    \/ \E task \in BagToSet(tasks) : indexSetDone(task)
    \/ \E task \in BagToSet(tasks) : sendToAPIDone(task)

SpecAgent == Init /\ [][NextAgent]_vars

\* the timers fire and every await returns
Fairness ==
    /\ WF_vars(checkStaleJobs)
    /\ WF_vars(\E minutes \in ElapseMinutes : Elapse(minutes))
    /\ WF_vars(\E task \in BagToSet(tasks), delivered \in BOOLEAN :
                  startScrapeJobDone(task, delivered))
    /\ WF_vars(\E task \in BagToSet(tasks), delivered \in BOOLEAN :
                  cancelScrapeJobDone(task, delivered))
    /\ WF_vars(\E task \in BagToSet(tasks), stored \in BOOLEAN :
                  saveRecordDone(task, stored))
    /\ WF_vars(\E task \in BagToSet(tasks) : indexGetDone(task))
    /\ WF_vars(\E task \in BagToSet(tasks) : indexSetDone(task))
    /\ WF_vars(\E task \in BagToSet(tasks) : sendToAPIDone(task))
    /\ WF_vars(\E task \in BagToSet(tasks) : staleHistoryDone(task))

SpecLive == Spec /\ Fairness

\* ======================================================== StorageManager
\* The methods of StorageManager are called one at a time: a call is begun
\* only when none is suspended.  Of the storage medium's operations only the
\* write of a Session Record may be rejected.

\* cleanJobData lines 163-167: null, undefined and '' become 'N/A'
cleanJobData(j) ==
    [jobId |-> IF j.jobId = "" THEN "N/A" ELSE j.jobId,
     jobUrl |-> IF j.jobUrl = "" THEN "N/A" ELSE j.jobUrl]

\* deduplicateJobs line 195: the key is the template string
\* `${job.jobId}_${job.jobUrl}`
dedupKey(j) == j.jobId \o "_" \o j.jobUrl

\* the elements of seq at the positions in S, in order
RECURSIVE AtPositions(_, _, _)
AtPositions(seq, S, i) ==
    IF i > Len(seq) THEN <<>>
    ELSE (IF i \in S THEN <<seq[i]>> ELSE <<>>) \o AtPositions(seq, S, i + 1)

\* deduplicateJobs lines 192-203: filter keeps a record unless its key was
\* seen at an earlier position
deduplicateJobs(jobs) ==
    AtPositions(jobs,
        {i \in 1..Len(jobs) :
            \A k \in 1..(i - 1) : dedupKey(jobs[k]) # dedupKey(jobs[i])}, 1)

\* optimizeDataForStorage lines 126-154 (no record carries a description
\* long enough to be compressed)
optimizeDataForStorage(data) ==
    [data EXCEPT !.jobs =
        deduplicateJobs([i \in 1..Len(data.jobs) |-> cleanJobData(data.jobs[i])])]

\* getDataSize lines 839-845: the bytes of the JSON text, here one unit for
\* the object and one for each result record
getDataSize(data) == 1 + Len(data.jobs)

\* the object literal of StorageManager.updateScrapingIndex lines 260-269
\* (endTime and duration are left out)
storageIndexEntry(sessionData) ==
    [id |-> sessionData.id, timestamp |-> sessionData.startTime,
     params |-> sessionData.params, jobCount |-> Len(sessionData.jobs),
     status |-> sessionData.status, dataSize |-> getDataSize(sessionData)]

RECURSIVE SumOver(_, _, _)
SumOver(index, field, i) ==
    IF i > Len(index) THEN 0 ELSE index[i][field] + SumOver(index, field, i + 1)

\* calculateStorageStats lines 747-775 (lastCalculated is left out)
calculateStorageStats(index) ==
    [totalJobs |-> SumOver(index, "jobCount", 1),
     totalSessions |-> Len(index),
     storageUsed |-> SumOver(index, "dataSize", 1)]

\* updateStorageStats lines 779-785, called at the end of every mutating
\* method
updateStorageStatsSkipped(store) == store
updateStorageStats(store) ==
    [store EXCEPT !.storageStats = calculateStorageStats(store.scrapingIndex)]

Without(index, ids) ==
    AtPositions(index, {i \in 1..Len(index) : index[i].id \notin ids}, 1)

\* deleteScrapingSession lines 544-567
deleteScrapingSession(store, sessionId) ==
    updateStorageStats(
        [store EXCEPT !.sessions[sessionId] = NoSession,
                      !.scrapingIndex = Without(@, {sessionId})])

\* deleteMultipleSessions lines 572-595
deleteMultipleSessions(store, sessionIds) ==
    updateStorageStats(
        [store EXCEPT !.sessions = [id \in StoreIds |->
                          IF id \in sessionIds THEN NoSession ELSE @[id]],
                      !.scrapingIndex = Without(@, sessionIds)])

\* performStorageCleanup line 818: index.sort((a, b) => a.timestamp -
\* b.timestamp), a stable sort
sortOldestFirst(index) ==
    LET rank(i) == Cardinality({k \in 1..Len(index) :
                       \/ index[k].timestamp < index[i].timestamp
                       \/ index[k].timestamp = index[i].timestamp /\ k < i})
    IN  [r \in 1..Len(index) |->
            index[CHOOSE i \in 1..Len(index) : rank(i) = r - 1]]

\* performStorageCleanup line 821: Math.floor(index.length * 0.25)
removeCountHalf(index) == Len(index) \div 2
removeCount(index) == Len(index) \div 4

\* performStorageCleanup lines 812-834
sessionsToRemove(index) == SubSeq(sortOldestFirst(index), 1, removeCount(index))
performStorageCleanup(store) ==
    LET toRemove == sessionsToRemove(store.scrapingIndex)
    IN  IF Len(toRemove) > 0
        THEN deleteMultipleSessions(store,
                 {toRemove[i].id : i \in 1..Len(toRemove)})
        ELSE store

\* checkStorageQuota line 799
usageHigh(usagePercent) == usagePercent > quotaThreshold

\* checkStorageQuota lines 790-808
checkStorageQuota(store, usagePercent) ==
    IF usageHigh(usagePercent) THEN performStorageCleanup(store) ELSE store

\* StorageManager.updateScrapingIndex lines 272-277: replace the entry with
\* the same identity where it is, or put the new entry in front
upsertAtTail(index, entry) ==
    IF \E i \in 1..Len(index) : index[i].id = entry.id
    THEN LET existingIndex == CHOOSE i \in 1..Len(index) :
                 /\ index[i].id = entry.id
                 /\ \A k \in 1..(i - 1) : index[k].id # entry.id
         IN  [index EXCEPT ![existingIndex] = entry]
    ELSE index \o <<entry>>
upsert(index, entry) ==
    IF \E i \in 1..Len(index) : index[i].id = entry.id
    THEN LET existingIndex == CHOOSE i \in 1..Len(index) :
                 /\ index[i].id = entry.id
                 /\ \A k \in 1..(i - 1) : index[k].id # entry.id
         IN  [index EXCEPT ![existingIndex] = entry]
    ELSE <<entry>> \o index

RECURSIVE deleteEach(_, _, _)
deleteEach(store, entries, i) ==
    IF i > Len(entries) THEN store
    ELSE deleteEach(deleteScrapingSession(store, entries[i].id),
                    entries, i + 1)

\* StorageManager.updateScrapingIndex lines 255-295: entries beyond the cap
\* are cut off the tail (splice) and deleteScrapingSession is awaited for each,
\* then the index is written
storageUpdateScrapingIndex(store, sessionData) ==
    LET index == upsert(store.scrapingIndex, storageIndexEntry(sessionData))
        kept == SubSeq(index, 1, Min(Len(index), maxIndexEntries))
        removed == SubSeq(index, Min(Len(index), maxIndexEntries) + 1, Len(index))
    IN  [deleteEach(store, removed, 1) EXCEPT !.scrapingIndex = kept]

\* saveScrapingSession lines 99-105, to `await chrome.storage.local.set`:
\* the data is optimized and the quota checked; then the write of the record
\* is awaited
beginSave(sessionData, usagePercent, origin, todo) ==
    /\ local' = checkStorageQuota(local, usagePercent)
    /\ call' = [NoCall EXCEPT !.op = "save", !.origin = origin,
                    !.sessionData = sessionData,
                    !.optimizedData = optimizeDataForStorage(sessionData),
                    !.todo = todo]
    /\ result' = NoResult

saveScrapingSession(sessionData, usagePercent) ==
    /\ call = NoCall
    /\ beginSave(sessionData, usagePercent, "caller", <<>>)
    /\ UNCHANGED <<orchVars, generated>>

\* saveScrapingSession lines 105-115 after the record is written: the index
\* is updated with the session as it was passed, then the stats
afterRecordSet(store, c) ==
    updateStorageStats(
        storageUpdateScrapingIndex(
            [store EXCEPT !.sessions[c.sessionData.id] = c.optimizedData],
            c.sessionData))

\* migrateDataIfNeeded lines 873-883: the Session Record made of a legacy
\* entry
newData(oldData, sessionId) ==
    [id |-> sessionId,
     startTime |-> IF oldData.timestamp # NoTimestamp THEN oldData.timestamp
                   ELSE Now,
     status |-> "completed",
     params |-> IF oldData.searchParams # Undefined THEN oldData.searchParams
                ELSE EmptyParams,
     jobs |-> oldData.jobs,
     migrated |-> "true"]

freshId == MaxSessions + generated + 1

\* an exported Session Record stored under a legacy key, as migrateDataIfNeeded
\* reads it (lines 877-881): the object has the properties startTime and
\* params, so its timestamp and its searchParams are undefined; jobs is read
\* under its own name
legacyView(session) == LegacyObject(NoTimestamp, Undefined, session.jobs)

\* the loop of migrateDataIfNeeded lines 871-887 at the head of an
\* iteration: the next legacy key is wrapped and saveScrapingSession called,
\* or the loop is over
migrateNext(store, todo, usagePercent) ==
    IF todo = <<>>
    THEN /\ local' = store
         /\ call' = NoCall
         /\ result' = NoResult
         /\ UNCHANGED generated
    ELSE /\ generated < MaxMigrations
         /\ generated' = generated + 1
         /\ local' = checkStorageQuota(store, usagePercent)
         /\ call' = [NoCall EXCEPT
                        !.op = "save", !.origin = "migrate",
                        !.sessionData = newData(store.legacy[Head(todo)], freshId),
                        !.optimizedData = optimizeDataForStorage(
                            newData(store.legacy[Head(todo)], freshId)),
                        !.todo = todo]
         /\ result' = NoResult

\* migrateDataIfNeeded lines 863-866: the keys that start with linkedin_jobs_
oldFormatKeys(store) ==
    LET present == {k \in LegacyKeys : store.legacy[k] # NoLegacy}
    IN  AtPositions([k \in LegacyKeys |-> k], present, 1)

\* migrateDataIfNeeded, to the await of the first saveScrapingSession; with
\* no legacy key it does nothing
migrateDataIfNeeded(usagePercent) ==
    /\ call = NoCall
    /\ migrateNext(local, oldFormatKeys(local), usagePercent)
    /\ UNCHANGED orchVars

\* migrateDataIfNeeded line 886: chrome.storage.local.remove([oldKey])
removeLegacyKept(store, oldKey) == store
removeLegacy(store, oldKey) == [store EXCEPT !.legacy[oldKey] = NoLegacy]

\* saveScrapingSession lines 117-120: catch, log, throw error
recordWriteFailureSwallowed == Saved(call.sessionData.id)
recordWriteFailure == Thrown

\* migrateDataIfNeeded lines 892-894: the catch block around the loop only
\* logs, so after a save that threw the key is left where it is and the
\* loop is over
migrationCaughtRemoves(store, oldKey) == removeLegacy(store, oldKey)
migrationCaught(store, oldKey) == store

\* saveScrapingSession resumes from `await chrome.storage.local.set({
\* [storageKey]: optimizedData })`.  Rejected: the catch block rethrows; a
\* caller gets the error, migrateDataIfNeeded logs it and ends.  Written: the
\* index and the stats are updated and the call returns; migration removes
\* the legacy key and goes on with the next one.
recordSetDone(rejects, usagePercent) ==
    /\ call.op = "save"
    /\ IF rejects
       THEN /\ result' = recordWriteFailure
            /\ call' = NoCall
            /\ local' = IF call.origin = "migrate"
                        THEN migrationCaught(local, Head(call.todo))
                        ELSE local
            /\ UNCHANGED generated
       ELSE IF call.origin = "caller"
       THEN /\ local' = afterRecordSet(local, call)
            /\ result' = Saved(call.sessionData.id)
            /\ call' = NoCall
            /\ UNCHANGED generated
       ELSE LET saved == afterRecordSet(local, call)
                removed == removeLegacy(saved, Head(call.todo))
            IN  migrateNext(removed, Tail(call.todo), usagePercent)
    /\ UNCHANGED orchVars

\* a caller's deleteScrapingSession(sessionId)
deleteSession(sessionId) ==
    /\ call = NoCall
    /\ local' = deleteScrapingSession(local, sessionId)
    /\ result' = Deleted
    /\ UNCHANGED <<orchVars, call, generated>>

\* a caller's deleteMultipleSessions(sessionIds)
deleteSessions(sessionIds) ==
    /\ call = NoCall
    /\ local' = deleteMultipleSessions(local, sessionIds)
    /\ result' = DeletedMany(Cardinality(sessionIds))
    /\ UNCHANGED <<orchVars, call, generated>>

\* scheduleCleanup lines 850-855: the timer calls checkStorageQuota
scheduledCleanup(usagePercent) ==
    /\ call = NoCall
    /\ local' = checkStorageQuota(local, usagePercent)
    /\ result' = NoResult
    /\ UNCHANGED <<orchVars, call, generated>>

\* getScrapingSessions lines 329-362 with limit 1000 and no filter: the
\* index newest first (a stable sort), and the record of each entry that
\* has one
sortNewestFirst(index) ==
    LET rank(i) == Cardinality({k \in 1..Len(index) :
                       \/ index[k].timestamp > index[i].timestamp
                       \/ index[k].timestamp = index[i].timestamp /\ k < i})
    IN  [r \in 1..Len(index) |->
            index[CHOOSE i \in 1..Len(index) : rank(i) = r - 1]]
getScrapingSessions(store) ==
    LET sorted == sortNewestFirst(store.scrapingIndex)
        found == {i \in 1..Len(sorted) : store.sessions[sorted[i].id] # NoSession}
    IN  AtPositions([i \in 1..Len(sorted) |-> store.sessions[sorted[i].id]],
                    found, 1)

\* JSON.stringify / JSON.parse of plain data (numbers, strings, arrays,
\* objects): a property whose value is undefined is not written, and reads
\* as undefined after the parse
JSONstringify(sessions) == [text |-> sessions]
JSONparse(json) == json.text

\* StorageManager.exportData lines 600-653
ExportFormats == {"json", "csv", "xlsx", "xml"}
exportUnsupported(format, sessions) == Thrown
exportData(format) ==
    /\ call = NoCall
    /\ result' =
         LET sessions == getScrapingSessions(local)
         IN  CASE format = "json" -> Exported("json", JSONstringify(sessions))
               [] format = "csv" -> Exported("csv", [text |-> sessions])
               [] OTHER -> exportUnsupported(format, sessions)
    /\ UNCHANGED <<orchVars, local, call, generated>>

\* String.prototype.toLowerCase, on the letters that occur
toLowerCase(chars) ==
    [i \in 1..Len(chars) |->
        CASE chars[i] = "D" -> "d"
          [] chars[i] = "E" -> "e"
          [] chars[i] = "V" -> "v"
          [] chars[i] = "O" -> "o"
          [] chars[i] = "P" -> "p"
          [] chars[i] = "S" -> "s"
          [] chars[i] = "N" -> "n"
          [] chars[i] = "Y" -> "y"
          [] chars[i] = "L" -> "l"
          [] chars[i] = "A" -> "a"
          [] OTHER -> chars[i]]

\* String.prototype.includes
includes(chars, searchTerm) ==
    \E i \in 0..(Len(chars) - Len(searchTerm)) :
        SubSeq(chars, i + 1, i + Len(searchTerm)) = searchTerm

\* applyFilters lines 385-387 and 392-394: `entry.params?.jobTitle?.
\* toLowerCase().includes(searchTerm)`; an entry without the property gives
\* undefined, which filter takes for false
includesTerm(text, term) ==
    text.given /\ includes(toLowerCase(text.chars), toLowerCase(term.chars))

\* applyFilters line 402: entry.jobCount >= filters.minJobs
meetsMinJobs(entry, minJobs) == entry.jobCount >= minJobs

\* applyFilters lines 370-406: the filters are applied one after the other
\* to a copy of the index
applyFilters(index, filters) ==
    LET byStart == IF filters.startDate # 0
                   THEN SelectSeq(index,
                            LAMBDA entry : entry.timestamp >= filters.startDate)
                   ELSE index
        byEnd == IF filters.endDate # 0
                 THEN SelectSeq(byStart,
                          LAMBDA entry : entry.timestamp <= filters.endDate)
                 ELSE byStart
        byTitle == IF filters.jobTitle.given /\ filters.jobTitle.chars # <<>>
                   THEN SelectSeq(byEnd, LAMBDA entry :
                            includesTerm(jobTitleOf(entry.params), filters.jobTitle))
                   ELSE byEnd
        byLocation == IF filters.location.given /\ filters.location.chars # <<>>
                      THEN SelectSeq(byTitle, LAMBDA entry :
                               includesTerm(locationOf(entry.params), filters.location))
                      ELSE byTitle
        byStatus == IF filters.status # ""
                    THEN SelectSeq(byLocation,
                             LAMBDA entry : entry.status = filters.status)
                    ELSE byLocation
    IN  IF filters.minJobs # 0
        THEN SelectSeq(byStatus,
                 LAMBDA entry : meetsMinJobs(entry, filters.minJobs))
        ELSE byStatus

\* Array.prototype.slice(start, end) with 0 <= start <= end
slice(seq, start, end) == SubSeq(seq, start + 1, Min(end, Len(seq)))

\* getScrapingSessions line 357: hasMore
hasMoreInclusive(offset, limit, length) == offset + limit <= length
hasMore(offset, limit, length) == offset + limit < length

\* getScrapingSessions lines 329-357 with the options given: the index is
\* filtered, sorted newest first and sliced, and the record of each entry of
\* the slice is loaded (getScrapingSession returns null for a key that is
\* not stored, and such an entry is left out)
getScrapingSessionsPage(store, options) ==
    LET index == sortNewestFirst(applyFilters(store.scrapingIndex, options.filters))
        paginatedIndex == slice(index, options.offset,
                                options.offset + options.limit)
        loaded == [i \in 1..Len(paginatedIndex) |->
                      store.sessions[paginatedIndex[i].id]]
        sessions == AtPositions(loaded,
                        {i \in 1..Len(loaded) : loaded[i] # NoSession}, 1)
    IN  Listed(sessions, Len(index),
               hasMore(options.offset, options.limit, Len(index)))

\* a caller's getScrapingSessions(options), to `await
\* chrome.storage.local.get(['scrapingIndex'])`
listSessions(options) ==
    /\ call = NoCall
    /\ call' = [NoCall EXCEPT !.op = "list", !.origin = "caller",
                              !.options = options]
    /\ result' = NoResult
    /\ UNCHANGED <<orchVars, local, generated>>

\* getScrapingSessions resumes with the stored index and returns (the reads
\* of the records it awaits are not interleaved with another call)
listSessionsDone ==
    /\ call.op = "list"
    /\ result' = getScrapingSessionsPage(local, call.options)
    /\ call' = NoCall
    /\ UNCHANGED <<orchVars, local, generated>>

\* the callers of StorageManager on a store without legacy keys
NextStore ==
    \/ \E sessionData \in SessionInputs, usagePercent \in UsagePercents :
           saveScrapingSession(sessionData, usagePercent)
    \/ \E rejects \in BOOLEAN : recordSetDone(rejects, quotaThreshold)
    \/ \E sessionId \in SessionIds : deleteSession(sessionId)
    \/ \E sessionIds \in SUBSET SessionIds :
           Cardinality(sessionIds) = 2 /\ deleteSessions(sessionIds)
    \/ \E usagePercent \in UsagePercents : scheduledCleanup(usagePercent)

SpecStore == Init /\ [][NextStore]_vars

\* a store that holds legacy keys when StorageManager is constructed
MigrateSessions == {s \in SessionInputs : s.id <= 2}
InitMigrate ==
    /\ InitOrchestrator(NoSink)
    /\ \E legacy \in [LegacyKeys -> LegacyData \cup {NoLegacy}] :
           InitStorage(legacy)
NextMigrate ==
    \/ \E usagePercent \in UsagePercents : migrateDataIfNeeded(usagePercent)
    \/ \E rejects \in BOOLEAN, usagePercent \in UsagePercents :
           recordSetDone(rejects, usagePercent)
    \/ \E sessionData \in MigrateSessions :
           saveScrapingSession(sessionData, quotaThreshold)
    \/ \E format \in ExportFormats : exportData(format)

SpecMigrate == InitMigrate /\ [][NextMigrate]_vars

\* export requests to the storage engine and to the orchestrator
NextExport ==
    \/ \E sessionData \in MigrateSessions :
           saveScrapingSession(sessionData, quotaThreshold)
    \/ recordSetDone(FALSE, quotaThreshold)
    \/ \E format \in ExportFormats : exportData(format)
    \/ \E format \in ExportFormats : handleExportData(format)

SpecExport == Init /\ [][NextExport]_vars

\* the sessions that are listed: three identities that differ in request
\* parameters, status and result count, saved in any order with any start
\* time
ListIds == 1..3
ListSessions ==
    {[Session(id, startTime,
              CASE id = 1 -> "p" [] id = 2 -> "q" [] OTHER -> EmptyParams,
              IF id = 2 THEN <<JobA, JobB>> ELSE <<JobA>>)
        EXCEPT !.status = IF id = 3 THEN "cancelled" ELSE "completed"] :
        id \in ListIds, startTime \in StartTimes}
ListFilters ==
    [startDate : {0, MaxTime}, endDate : {0, 1},
     jobTitle : {NoText, Text(<<"D", "E", "V">>), Text(<<"o", "p", "s">>)},
     location : {NoText, Text(<<"n", "y">>)},
     status : {"", "completed"}, minJobs : {0, 2}]
ListOptions == [limit : 1..2, offset : 0..2, filters : ListFilters]
NextList ==
    \/ \E sessionData \in ListSessions :
           saveScrapingSession(sessionData, quotaThreshold)
    \/ recordSetDone(FALSE, quotaThreshold)
    \/ \E sessionId \in ListIds : deleteSession(sessionId)
    \/ \E options \in ListOptions : listSessions(options)
    \/ listSessionsDone

SpecList == Init /\ [][NextList]_vars

\* ================================================================ claims
InRegistry(j) == \E t \in Tabs : activeScrapeJobs[t] = j
Live(j) == Referenced(j, activeScrapeJobs, tasks)
LiveNext(j) == Referenced(j, activeScrapeJobs', tasks')
StorageIdle == At("save_record") \cup At("index_get") \cup At("index_set") = {}
EntriesOf(j) == {i \in DOMAIN scrapingIndex : scrapingIndex[i].id = j}
\* the step admits the request at the head of the queue as a new running job
AdmitsHead ==
    /\ scrapingQueue # <<>>
    /\ scrapingQueue' = Tail(scrapingQueue)
    /\ LET h == Head(scrapingQueue)
           j == activeScrapeJobs'[h.tabId]
       IN  /\ j # NoJob
           /\ job[j].status = "unborn"
           /\ job'[j].status = "running"
           /\ job'[j].params = h.scrapingParams

\* C1: the number of jobs in the running-job registry never exceeds the
\* concurrency ceiling, whatever events were handled.
C1_ConcurrencyBound == SizeOf(activeScrapeJobs) <= maxConcurrentScrapes

\* the registry is full, a request waits, and a job admitted from the queue
\* is being started
C1_Witness ==
    /\ SizeOf(activeScrapeJobs) = maxConcurrentScrapes
    /\ scrapingQueue # <<>>
    /\ \E task \in At("start") : task.origin # "START_SCRAPING"

\* C2: queued requests are admitted in the order in which they were queued:
\* the queue changes only by a request being appended at its tail or by its
\* head being removed and started as a running job.
C2_FifoAdmission ==
    [][scrapingQueue' # scrapingQueue =>
         \/ /\ Len(scrapingQueue') = Len(scrapingQueue) + 1
            /\ SubSeq(scrapingQueue', 1, Len(scrapingQueue)) = scrapingQueue
         \/ AdmitsHead]_vars

\* a request admitted from the queue is being started while a request queued
\* after it still waits
C2_Witness ==
    /\ scrapingQueue # <<>>
    /\ \E task \in At("start") :
         /\ task.origin # "START_SCRAPING"
         /\ task.tabId # Head(scrapingQueue).tabId

\* C3: every slot release (by completion, cancellation or watchdog timeout)
\* that happens while the queue is not empty admits the oldest queued request.
ReleaseStep(task) ==
    \/ \E delivered \in BOOLEAN : cancelScrapeJobDone(task, delivered)
    \/ completeHandlerEnds(task)
    \/ staleHistoryDone(task)
C3_ReleaseAdmitsNext ==
    [][\A task \in BagToSet(tasks) :
         (/\ ReleaseStep(task)
          /\ activeScrapeJobs[task.tabId] # NoJob
          /\ scrapingQueue # <<>>) => AdmitsHead]_vars

\* C4: a job that reached a terminal state has had its Session Record written
\* exactly once by the time the orchestrator lets go of it.
C4_PersistedExactlyOnce ==
    [][\A j \in JobIds :
         (Live(j) /\ ~LiveNext(j) /\ job[j].status \in Terminal)
            => sessionWrites'[j] = 1]_vars

\* C5: once a job's status is terminal, no later event changes its status,
\* its results or its error log.
C5_TerminalAbsorbing ==
    [][\A j \in JobIds :
         (job[j].status \in Terminal /\ LiveNext(j))
            => /\ job'[j].status = job[j].status
               /\ job'[j].extractedJobs = job[j].extractedJobs
               /\ job'[j].errors = job[j].errors]_vars

\* C6: under fair firing of the watchdog timer, once the Agent stays silent
\* (no progress event is handled any more) every job that is in the running
\* registry eventually leaves it, also a job that never got a progress event.
ProgressEvent ==
    \E tabId \in Tabs, type \in {"info", "error", "complete"},
       data \in DataSets \cup {<<>>} : handleProgressUpdate(tabId, type, data)
C6_NoJobRunsForever ==
    \A j \in JobIds :
        (<>[][~ProgressEvent]_vars) => (InRegistry(j) ~> ~InRegistry(j))

\* C7: whenever no storage operation is in progress, every Session Record has
\* exactly one Index Entry and every Index Entry refers to a Session Record.
C7_RecordsMatchIndex ==
    StorageIdle =>
        \A j \in JobIds :
            Cardinality(EntriesOf(j)) = IF scrapingResult[j] # NoData THEN 1 ELSE 0

\* C8: no index update is lost: whenever no storage operation is in progress,
\* every session that was saved (none is ever deleted here) has an Index Entry.
C8_NoLostIndexUpdate ==
    StorageIdle => \A j \in JobIds : scrapingResult[j] # NoData => EntriesOf(j) # {}

\* C9: a submit from a context that has a running job is answered with an
\* error and leaves the registry, the queue and the jobs unchanged.
C9_RejectsSecondSubmit ==
    [][\A tabId \in Tabs, p \in Params :
         (activeScrapeJobs[tabId] # NoJob /\ handleStartScraping(tabId, p))
            => /\ response'.kind = "error"
               /\ UNCHANGED <<activeScrapeJobs, scrapingQueue, job>>]_vars

\* a submit was just rejected for a context whose job is in the registry
C9_Witness ==
    /\ response = Error("Scraping already active in this tab")
    /\ \E t \in Tabs : activeScrapeJobs[t] # NoJob

\* C10: a submit at the ceiling starts no job, is appended at the tail of the
\* queue and is told its 1-based position; a submit below the ceiling becomes
\* running at once and leaves the queue unchanged.
C10_QueueOrStart ==
    [][\A tabId \in Tabs, p \in Params :
         (activeScrapeJobs[tabId] = NoJob /\ handleStartScraping(tabId, p))
            => IF SizeOf(activeScrapeJobs) >= maxConcurrentScrapes
               THEN /\ UNCHANGED <<activeScrapeJobs, job>>
                    /\ scrapingQueue' = Append(scrapingQueue,
                           [tabId |-> tabId, scrapingParams |-> p])
                    /\ response' = Queued(Len(scrapingQueue) + 1)
               ELSE /\ UNCHANGED scrapingQueue
                    /\ activeScrapeJobs'[tabId] # NoJob
                    /\ job'[activeScrapeJobs'[tabId]].status = "running"
                    /\ SizeOf(activeScrapeJobs') = SizeOf(activeScrapeJobs) + 1
                    /\ response'.kind = "none"]_vars

\* a submit was just queued behind another request and told position 2
C10_Witness == response = Queued(2) /\ Len(scrapingQueue) = 2

\* C11: while the `complete` handler of a job is still persisting or
\* delivering (the job holds its slot), no queued request is admitted; the
\* admission happens in the handler's own last step, after both have finished.
Completing(task) ==
    /\ task.pc \in {"save_record", "index_get", "index_set", "send_api"}
    /\ activeScrapeJobs[task.tabId] = task.job
C11_CompleteOrder ==
    [][\A task \in BagToSet(tasks) :
         (Completing(task) /\ Len(scrapingQueue') < Len(scrapingQueue))
            => completeHandlerEnds(task)]_vars

\* C12: a cancel for a context with a running job leaves the job cancelled
\* with its end time recorded, out of the running registry, and with a
\* Session Record and its Index Entry written.
HasIndexEntry(j, index) == \E i \in DOMAIN index : index[i].id = j
C12_CancelPersists ==
    [][\A task \in BagToSet(tasks) :
         (/\ \E delivered \in BOOLEAN : cancelScrapeJobDone(task, delivered)
          /\ job[task.job].status = "cancelled")
            => /\ job[task.job].endTime = "set"
               /\ \A t \in Tabs : activeScrapeJobs'[t] # task.job
               /\ scrapingResult'[task.job] # NoData
               /\ HasIndexEntry(task.job, scrapingIndex')]_vars

\* C13: a job the watchdog force-terminated has status timeout and the
\* synthetic error entry in its error log, leaves the running registry, and
\* has a Session Record with that status.
C13_TimeoutPersists ==
    [][\A task \in BagToSet(tasks) :
         (staleHistoryDone(task) /\ job[task.job].status = "timeout")
            => /\ Len(job[task.job].errors) > 0
               /\ job[task.job].errors[Len(job[task.job].errors)]
                      = "Job timed out due to inactivity"
               /\ activeScrapeJobs'[task.tabId] = NoJob
               /\ scrapingResult'[task.job] # NoData
               /\ scrapingResult'[task.job].status = "timeout"]_vars

\* C14: on a watchdog tick a job in the running registry is transitioned to
\* timeout if and only if its last update is older than the stale threshold:
\* a job becomes timeout only when last updated more than staleTime minutes
\* ago (31, not 29), and a pass marks every such job, at once or after the
\* write it is awaiting.
InPass(tabId, j, bag) ==
    \E task \in BagToSet(bag) :
        /\ task.pc = "stale_history"
        /\ (task.job = j \/ tabId \in task.todo)
C14_StaleIffOlder ==
    [][/\ \A j \in JobIds :
            (job[j].status # "timeout" /\ job'[j].status = "timeout")
               => (job[j].lastUpdate # NaN /\ job[j].lastUpdate > staleTime)
       /\ checkStaleJobs =>
            \A tabId \in Tabs :
               LET j == activeScrapeJobs[tabId]
               IN  j # NoJob =>
                     IF job[j].lastUpdate # NaN /\ job[j].lastUpdate > staleTime
                     THEN InPass(tabId, j, tasks')
                     ELSE job'[j] = job[j] /\ activeScrapeJobs'[tabId] = j]_vars

\* a job last updated 31 minutes ago has just been marked timeout
C14_Witness ==
    \E task \in At("stale_history") :
        /\ job[task.job].status = "timeout"
        /\ job[task.job].lastUpdate = staleTime + 1
        /\ activeScrapeJobs[task.tabId] = task.job

\* C15: an `error` progress event for a running job appends one entry to the
\* job's error log and leaves its status, its results, the running registry
\* and the admission queue unchanged.
C15_ErrorEventFrame ==
    [][\A tabId \in Tabs :
         (/\ handleProgressUpdate(tabId, "error", <<>>)
          /\ job[JobOfTab(tabId)].status = "running")
            => LET j == JobOfTab(tabId)
               IN  /\ Len(job'[j].errors) = Len(job[j].errors) + 1
                   /\ SubSeq(job'[j].errors, 1, Len(job[j].errors)) = job[j].errors
                   /\ job'[j].status = "running"
                   /\ job'[j].extractedJobs = job[j].extractedJobs
                   /\ UNCHANGED <<activeScrapeJobs, scrapingQueue>>]_vars

\* a running job with a request queued behind it has an Agent error logged
C15_Witness ==
    \E tabId \in Tabs :
        /\ JobOfTab(tabId) # NoJob
        /\ job[JobOfTab(tabId)].status = "running"
        /\ job[JobOfTab(tabId)].errors = <<"agent">>
        /\ scrapingQueue # <<>>

\* C16: when the start signal cannot be delivered, the job is not in the
\* running registry once the failure has been handled (the slot of its
\* context is free), and a caller that submitted the request is answered
\* with an error.
C16_StartFailure ==
    [][\A task \in BagToSet(tasks) :
         startScrapeJobDone(task, FALSE)
            => /\ activeScrapeJobs'[task.tabId] = NoJob
               /\ \A t \in Tabs : activeScrapeJobs'[t] # task.job
               /\ task.origin = "START_SCRAPING" => response'.kind = "error"]_vars

\* a submit has just failed at the start signal and no slot is taken
C16_Witness ==
    /\ response = Error("start failed")
    /\ SizeOf(activeScrapeJobs) = 0

C18_SaveFailureFreesSlot ==
    [][\A task \in BagToSet(tasks) :
         /\ saveRecordDone(task, FALSE)
               => /\ \E t \in BagToSet(tasks') :
                        t.pc = "send_api" /\ t.job = task.job /\ t.tabId = task.tabId
                  /\ At("save_record")' \subseteq At("save_record")
                  /\ UNCHANGED <<scrapingResult, scrapingIndex, sessionWrites>>
         /\ completeHandlerEnds(task)
               => /\ \A t \in Tabs : activeScrapeJobs'[t] # task.job
                  /\ (activeScrapeJobs[task.tabId] # NoJob /\ scrapingQueue # <<>>)
                        => AdmitsHead]_vars

\* nothing was ever stored, yet a `complete` handler has freed its slot and
\* is starting the queued request
C18_Witness ==
    /\ \A j \in JobIds : sessionWrites[j] = 0
    /\ \E task \in At("start") :
         /\ task.origin = "PROGRESS_UPDATE"
         /\ activeScrapeJobs[task.tabId] = task.job

\* C19: while the endpoint or the key of the sink is absent from the
\* settings, no outbound call is made and none is awaited; a `complete`
\* handler that finds the sink unconfigured raises no error, has the job's
\* Session Record stored, takes the job out of the running registry and
\* admits the next queued request.
SinkAbsent == settings.apiEndpoint = "" \/ settings.apiKey = ""
C19_UnconfiguredSinkSkipped ==
    [][SinkAbsent =>
         /\ apiCalls' = apiCalls
         /\ At("fetch")' = {}
         /\ \A task \in BagToSet(tasks) :
               sendToAPIDone(task)
                  => /\ response'.kind # "error"
                     /\ scrapingResult'[task.job] # NoData
                     /\ \A t \in Tabs : activeScrapeJobs'[t] # task.job
                     /\ (activeScrapeJobs[task.tabId] # NoJob /\ scrapingQueue # <<>>)
                           => AdmitsHead]_vars

\* with an endpoint but no key, a completed job was stored, never sent, and
\* its handler has freed the slot and is starting the queued request
C19_Witness ==
    /\ settings = [apiEndpoint |-> "endpoint", apiKey |-> ""]
    /\ \E j \in JobIds :
         /\ scrapingResult[j] # NoData
         /\ HasIndexEntry(j, scrapingIndex)
         /\ ~InRegistry(j)
         /\ apiCalls[j] = 0
    /\ \E task \in At("start") : task.origin = "PROGRESS_UPDATE"

\* C20: with the sink configured, a job that the orchestrator lets go has
\* caused exactly one outbound call if it ended completed and none if it ended
\* cancelled or timeout.
C20_OneCallPerCompleted ==
    [][\A j \in JobIds :
         (sinkConfigured(settings) /\ Live(j) /\ ~LiveNext(j))
            => apiCalls'[j] = IF job[j].status = "completed" THEN 1 ELSE 0]_vars

\* the identities the index lists
IndexedIds(index) == {index[i].id : i \in 1..Len(index)}
\* a save is completed by the step: its record is written
SaveCompletes == \E usagePercent \in UsagePercents : recordSetDone(FALSE, usagePercent)

\* C21: after a save the index holds no more entries than its cap, and the
\* entries a save pushes out are the oldest by timestamp (none of them is
\* newer than an entry that stays), whatever the order in which the
\* timestamps were inserted; the Session Records of the entries pushed out
\* are deleted with them.
C21_IndexCapNewest ==
    [][SaveCompletes =>
         /\ Len(local'.scrapingIndex) <= maxIndexEntries
         /\ \A i \in 1..Len(local.scrapingIndex) :
              local.scrapingIndex[i].id \notin IndexedIds(local'.scrapingIndex)
                 => /\ local'.sessions[local.scrapingIndex[i].id] = NoSession
                    /\ \A k \in 1..Len(local'.scrapingIndex) :
                         local.scrapingIndex[i].timestamp
                            <= local'.scrapingIndex[k].timestamp]_vars

\* the entries of index whose identity is in ids
EntriesWith(index, ids) == {index[i] : i \in {k \in 1..Len(index) : index[k].id \in ids}}

\* C22: saveSession checks the usage before it writes: above 80% of the
\* quota it deletes exactly floor(n * 0.25) of the n indexed sessions, those
\* with the oldest timestamps, record and Index Entry together, and the new
\* record is not yet written then; at 80% or below it evicts nothing.
C22_QuotaEviction ==
    [][\A usagePercent \in UsagePercents :
         (/\ call = NoCall
          /\ call'.op = "save"
          /\ saveScrapingSession(call'.sessionData, usagePercent)) =>
            LET n == Len(local.scrapingIndex)
                gone == IndexedIds(local.scrapingIndex)
                           \ IndexedIds(local'.scrapingIndex)
            IN  IF usagePercent > 80
                THEN /\ 4 * Cardinality(gone) <= n
                     /\ n < 4 * (Cardinality(gone) + 1)
                     /\ \A old \in EntriesWith(local.scrapingIndex, gone),
                          kept \in EntriesWith(local.scrapingIndex,
                                       IndexedIds(local'.scrapingIndex)) :
                            old.timestamp <= kept.timestamp
                     /\ local'.scrapingIndex = Without(local.scrapingIndex, gone)
                     /\ \A id \in StoreIds :
                          local'.sessions[id] =
                             IF id \in gone THEN NoSession ELSE local.sessions[id]
                ELSE local' = local]_vars

\* a save is suspended before the write of its record, and of the sessions
\* saved before it one is gone: the store holds one session less than the
\* cap admits and the session being saved is not among them
C22_Witness ==
    /\ call.op = "save"
    /\ Len(local.scrapingIndex) = maxIndexEntries - 1
    /\ call.sessionData.id \notin IndexedIds(local.scrapingIndex)
    /\ \E i \in 1..Len(local.scrapingIndex) : local.scrapingIndex[i].timestamp = 2
    /\ \A id \in SessionIds :
         local.sessions[id] # NoSession <=> id \in IndexedIds(local.scrapingIndex)

\* no two result records of the list have the same (result id, result URL)
NoRepeatedPair(jobs) ==
    \A i, k \in 1..Len(jobs) :
        (i # k) => ~(jobs[i].jobId = jobs[k].jobId /\ jobs[i].jobUrl = jobs[k].jobUrl)

\* C23: a persisted Session Record never holds two result records with the
\* same (result id, result URL) pair, also when the orchestrator persisted it
\* on the completion of a job.
C23_NoRepeatedResults ==
    \A j \in JobIds : NoRepeatedPair(scrapingResult[j].jobs)

\* C24: when a retention sweep has finished, no Index Entry and no Session
\* Record of a session it found older than the window remains, and every
\* other session has kept its Index Entry and its Session Record.
C24_RetentionSweep ==
    [][\A task \in BagToSet(tasks) :
         sweepSetDone(task) =>
            \A j \in JobIds :
               IF j \in task.todo
               THEN /\ ~HasIndexEntry(j, scrapingIndex')
                    /\ scrapingResult'[j] = NoData
               ELSE /\ HasIndexEntry(j, scrapingIndex)
                          => HasIndexEntry(j, scrapingIndex')
                    /\ scrapingResult'[j] = scrapingResult[j]]_vars

\* C25: session identities are unique in the index: it never lists two
\* entries with the same identity, also not after a record was saved whose
\* identity is indexed already.
C25_UniqueIdentities ==
    \A j \in JobIds : Cardinality(EntriesOf(j)) <= 1

\* C26: when the medium rejects the write of the Session Record,
\* saveSession raises an error to its caller and returns no result, and the
\* call creates or replaces no Index Entry: up to the write it only removes
\* entries, and after the rejection it leaves the store as it is.
C26_RejectedWriteRaises ==
    [][/\ (call = NoCall /\ call'.op = "save")
            => \A i \in 1..Len(local'.scrapingIndex) :
                  \E k \in 1..Len(local.scrapingIndex) :
                     local'.scrapingIndex[i] = local.scrapingIndex[k]
       /\ (call.op = "save" /\ recordSetDone(TRUE, quotaThreshold))
            => /\ result'.kind = "error"
               /\ call' = NoCall
               /\ local' = local]_vars

\* the save of a session that is not indexed was just rejected while
\* another session is stored
C26_Witness ==
    /\ result = Thrown
    /\ call = NoCall
    /\ Len(local.scrapingIndex) = 1
    /\ Cardinality({id \in SessionIds : local.sessions[id] # NoSession}) = 1

\* C27: an export request for a format other than json and csv fails
\* explicitly: the storage engine's export ends with an error and the
\* orchestrator answers the export message with an error, never with success.
C27_UnsupportedFormatFails ==
    [][\A format \in ExportFormats \ {"json", "csv"} :
         /\ exportData(format) => result'.kind = "error"
         /\ handleExportData(format) => response'.kind = "error"]_vars

\* C28: migration handles a legacy key once: the step that completes the
\* save made for a key writes one Session Record, under an identity that was
\* not in the store and with the migrated marker, through saveSession, and
\* removes that key and no other; a migration that ends without an error
\* leaves no legacy key; and a migration run on a store without legacy keys
\* changes nothing.
LegacyPresent(store) == {k \in LegacyKeys : store.legacy[k] # NoLegacy}
C28_MigratesOnce ==
    [][/\ (call.origin = "migrate" /\ recordSetDone(FALSE, quotaThreshold))
            => LET id == call.sessionData.id
                   oldKey == Head(call.todo)
               IN  /\ local.sessions[id] = NoSession
                   /\ id \notin IndexedIds(local.scrapingIndex)
                   /\ local'.sessions[id].migrated = "true"
                   /\ local'.sessions[id].id = id
                   /\ id \in IndexedIds(local'.scrapingIndex)
                   /\ \A other \in StoreIds \ {id} :
                        local'.sessions[other] = local.sessions[other]
                   /\ oldKey \in LegacyPresent(local)
                   /\ LegacyPresent(local') = LegacyPresent(local) \ {oldKey}
       /\ (call.origin = "migrate" /\ call' = NoCall /\ result'.kind # "error")
            => LegacyPresent(local') = {}
       /\ \A usagePercent \in UsagePercents :
            (LegacyPresent(local) = {} /\ migrateDataIfNeeded(usagePercent))
               => UNCHANGED <<local, call, generated>>]_vars

\* both legacy keys were migrated: none remains, two identities were
\* generated, and two records with the migrated marker are stored and indexed
C28_Witness ==
    /\ call = NoCall
    /\ generated = 2
    /\ LegacyPresent(local) = {}
    /\ \A id \in {MaxSessions + 1, MaxSessions + 2} :
         /\ local.sessions[id].migrated = "true"
         /\ id \in IndexedIds(local.scrapingIndex)

\* what migration stores for an exported session
Reimported(session) ==
    optimizeDataForStorage(newData(legacyView(session), freshId))
\* C29: every session of a JSON export of all sessions, imported again
\* through migration, yields a Session Record with the same request
\* parameters, the same number of result records and the same result
\* identities.
C29_ExportRoundTrip ==
    (result.kind = "exported" /\ result.format = "json") =>
        \A i \in 1..Len(JSONparse(result.data)) :
            LET session == JSONparse(result.data)[i]
            IN  /\ Reimported(session).params = session.params
                /\ Len(Reimported(session).jobs) = Len(session.jobs)
                /\ \A k \in 1..Len(session.jobs) :
                     Reimported(session).jobs[k].jobId = session.jobs[k].jobId

\* C30: whenever a mutating storage operation (saveSession, a single delete,
\* a batch delete, a quota eviction) has finished, the stored Storage Stats
\* equal the values derived from the index: the session count is the number
\* of Index Entries, the result count the sum of their result counts, the
\* bytes used the sum of their sizes.
C30_StatsMatchIndex ==
    call = NoCall =>
        /\ local.storageStats.totalSessions = Len(local.scrapingIndex)
        /\ local.storageStats.totalJobs = SumOver(local.scrapingIndex, "jobCount", 1)
        /\ local.storageStats.storageUsed = SumOver(local.scrapingIndex, "dataSize", 1)

\* a save has finished with the index at its cap, and the stats count the
\* sessions and the result records the index lists
C30_Witness ==
    /\ call = NoCall
    /\ result.kind = "success"
    /\ Len(local.scrapingIndex) = maxIndexEntries
    /\ local.storageStats.totalSessions = maxIndexEntries
    /\ local.storageStats.totalJobs > maxIndexEntries
    /\ Cardinality({id \in SessionIds : local.sessions[id] = NoSession}) = 1

\* text contains term, letter case ignored
SameLetter(a, b) == toLowerCase(<<a>>) = toLowerCase(<<b>>)
ContainsIgnoringCase(text, term) ==
    /\ text.given
    /\ \E i \in 0..(Len(text.chars) - Len(term.chars)) :
         \A k \in 1..Len(term.chars) : SameLetter(text.chars[i + k], term.chars[k])
\* the Index Entry satisfies every filter that is given
Satisfies(entry, filters) ==
    /\ filters.startDate # 0 => entry.timestamp >= filters.startDate
    /\ filters.endDate # 0 => entry.timestamp <= filters.endDate
    /\ filters.jobTitle.given
          => ContainsIgnoringCase(jobTitleOf(entry.params), filters.jobTitle)
    /\ filters.location.given
          => ContainsIgnoringCase(locationOf(entry.params), filters.location)
    /\ filters.status # "" => entry.status = filters.status
    /\ filters.minJobs # 0 => entry.jobCount >= filters.minJobs
Matching(index, filters) ==
    {index[i] : i \in {k \in 1..Len(index) : Satisfies(index[k], filters)}}

\* C31: a list request returns as total the number of Index Entries that
\* satisfy all given filters, whatever the pagination; as page the sessions
\* of the entries ranked offset+1 .. offset+limit among them in newest-first
\* timestamp order (at most limit of them, each listed once); and hasMore
\* true exactly when offset + limit < total.
C31_ListPage ==
    [][listSessionsDone =>
            LET options == call.options
                matching == Matching(local.scrapingIndex, options.filters)
                total == Cardinality(matching)
                page == result'.sessions
                first == options.offset
                rest == IF total > first THEN total - first ELSE 0
            IN  /\ result'.total = total
                /\ result'.hasMore = (options.offset + options.limit < total)
                /\ Len(page) = Min(options.limit, rest)
                /\ \A k \in 1..Len(page) :
                     /\ \E entry \in matching :
                          entry.id = page[k].id /\ entry.timestamp = page[k].startTime
                     /\ \A m \in 1..Len(page) : page[m].id = page[k].id => m = k
                     /\ Cardinality({entry \in matching :
                            entry.timestamp > page[k].startTime}) <= first + k - 1
                     /\ Cardinality({entry \in matching :
                            entry.timestamp >= page[k].startTime}) >= first + k]_vars

\* three sessions are indexed; a list request whose filters two of them
\* satisfy was answered with total 2, a page of one session and hasMore
C31_Witness ==
    /\ result.kind = "listed"
    /\ Len(local.scrapingIndex) = 3
    /\ result.total = 2
    /\ Len(result.sessions) = 1
    /\ result.hasMore

\* C32: the index is kept newest-first: after any sequence of saves (new
\* sessions, saves of an identity that is indexed already, migrated sessions)
\* the timestamps of the Index Entries never increase from the front of the
\* index to its tail.
C32_IndexNewestFirst ==
    \A i \in 1..(Len(local.scrapingIndex) - 1) :
        local.scrapingIndex[i].timestamp >= local.scrapingIndex[i + 1].timestamp

\* C33: whenever no call is suspended, the result count of every Index
\* Entry is the number of result records of the stored Session Record with
\* the same identity, also when the session was saved with repeated result
\* records.
C33_CountMatchesRecord ==
    call = NoCall =>
        \A i \in 1..Len(local.scrapingIndex) :
            local.scrapingIndex[i].jobCount
                = Len(local.sessions[local.scrapingIndex[i].id].jobs)

\* C34: admitting a queued request never overwrites a job that is still
\* running: in every step that takes a request from the queue, the context
\* of that request had no job in the running registry, or the job it had
\* was terminal (it is the job whose slot the step releases).
C34_AdmissionKeepsRunning ==
    [][(scrapingQueue # <<>> /\ scrapingQueue' = Tail(scrapingQueue)) =>
         LET old == activeScrapeJobs[Head(scrapingQueue).tabId]
         IN  old = NoJob \/ job[old].status \in Terminal]_vars

\* C35: a submission is started directly only when the admission queue is
\* empty: no step in which a START_SCRAPING message starts a job for its
\* context is taken while a request waits in the queue.
C35_NoOvertaking ==
    [][\A tabId \in Tabs, p \in Params :
         (/\ handleStartScraping(tabId, p)
          /\ activeScrapeJobs[tabId] = NoJob
          /\ activeScrapeJobs'[tabId] # NoJob) => scrapingQueue = <<>>]_vars

\* a request of the context waits in the admission queue
InQueue(tabId) ==
    \E i \in 1..Len(scrapingQueue) : scrapingQueue[i].tabId = tabId
\* C36: no queued request waits forever: if every job in the running
\* registry eventually leaves it, then every request that is in the
\* admission queue is eventually taken from it (to be started), under fair
\* timers and awaits that all return.
C36_QueuedEventuallyAdmitted ==
    (\A t \in Tabs : (activeScrapeJobs[t] # NoJob) ~> (activeScrapeJobs[t] = NoJob))
        => (\A t \in Tabs : InQueue(t) ~> ~InQueue(t))

\* C38: when a save ends with success, the Session Record of the saved
\* identity is stored as it was optimized and the index holds exactly one
\* entry for it: neither the quota eviction nor the cap trim of that save
\* removes the session being saved, also when it replaces a session that
\* was stored already.
C38_SavedIsRetrievable ==
    [][(call.op = "save" /\ call.origin = "caller" /\ SaveCompletes) =>
         LET id == call.sessionData.id
         IN  /\ result' = Saved(id)
             /\ local'.sessions[id] = optimizeDataForStorage(call.sessionData)
             /\ local'.sessions[id] # NoSession
             /\ Cardinality({i \in 1..Len(local'.scrapingIndex) :
                    local'.scrapingIndex[i].id = id}) = 1]_vars

\* a save has just replaced a session that was indexed already (its entry
\* is not at the front) in an index that is at its cap
C38_Witness ==
    /\ call = NoCall
    /\ result.kind = "success"
    /\ result.sessionId # 0
    /\ Len(local.scrapingIndex) = maxIndexEntries
    /\ local.scrapingIndex[1].id # result.sessionId
    /\ result.sessionId \in IndexedIds(local.scrapingIndex)
    /\ local.sessions[result.sessionId] # NoSession

\* the step completes the write of the record migration made of legacy key
\* k: the record being written is the one made of that key, and after the
\* step it is stored, unless the run went on to its next key and the quota
\* eviction that save begins with took it, record and index entry together
WritesRecordOf(k) ==
    LET id == call.sessionData.id
    IN  /\ call.op = "save"
        /\ call.origin = "migrate"
        /\ Head(call.todo) = k
        /\ SaveCompletes
        /\ local.sessions[id] = NoSession
        /\ call.optimizedData
              = optimizeDataForStorage(newData(local.legacy[k], id))
        /\ \/ local'.sessions[id] = call.optimizedData
           \/ /\ Tail(call.todo) # <<>>
              /\ local'.sessions[id] = NoSession
              /\ id \notin IndexedIds(local'.scrapingIndex)
              /\ Len(local'.scrapingIndex) <= Len(local.scrapingIndex)
\* C40: a legacy entry is removed only in the step that has written the
\* Session Record made of it (the record is then stored, or was evicted by
\* the quota check of the run's next save); when the write of that record is
\* rejected, the legacy entry and every other legacy entry are still stored,
\* nothing else in the store has changed, and the migration run is over.
C40_MigrationKeepsLegacy ==
    [][/\ \A k \in LegacyKeys :
            (k \in LegacyPresent(local) /\ k \notin LegacyPresent(local'))
               => WritesRecordOf(k)
       /\ \A usagePercent \in UsagePercents :
            (call.origin = "migrate" /\ recordSetDone(TRUE, usagePercent))
               => /\ Head(call.todo) \in LegacyPresent(local')
                  /\ local' = local
                  /\ call' = NoCall]_vars

\* the first legacy key was migrated and removed; the write made for the
\* second was rejected and the second key is still stored
C40_Witness ==
    /\ call = NoCall
    /\ result = Thrown
    /\ generated = 2
    /\ LegacyPresent(local) = {2}
    /\ local.sessions[MaxSessions + 1].migrated = "true"
    /\ local.sessions[MaxSessions + 2] = NoSession

\* C39: when the handler of a tab removal has ended, the removed context
\* has no job in the running registry and no request in the admission
\* queue: nothing is started for it any more.
C39_RemovedTabForgotten ==
    [][\A task \in BagToSet(tasks) :
         (/\ task.origin = "tabRemoved"
          /\ \E delivered \in BOOLEAN : cancelScrapeJobDone(task, delivered))
            => /\ activeScrapeJobs'[task.tabId] = NoJob
               /\ ~InQueue(task.tabId)']_vars

\* C37: a progress event changes only the job whose Agent run sent it: no
\* other job's status, results, error log or last update is changed by the
\* step that handles it; and the step that releases the slot of a job
\* leaves a different job of the same context in the running registry.
C37_EventsReachEmitter ==
    [][/\ \A emitter \in JobIds, type \in EventTypes :
            \A data \in EventData(type) :
               agentSends(emitter, type, data)
                  => \A other \in JobIds \ {emitter} : job'[other] = job[other]
       /\ \A task \in BagToSet(tasks) :
            (/\ ReleaseStep(task)
             /\ activeScrapeJobs[task.tabId] \notin {NoJob, task.job})
               => activeScrapeJobs'[task.tabId] = activeScrapeJobs[task.tabId]]_vars
====
